---- MODULE Spec2Model ----
(***************************************************************************)
(* Analysis orchestration and rating synthesis of finbrodataprep:          *)
(*   ratings/rater.py        StockRater.rate_stock and its verdicts        *)
(*   pipelines/pipelines.py  StockAnalysisPipeline.analyze_stock and       *)
(*                           batch_analyze_stocks                          *)
(* Text is modelled as a sequence of tokens, so that the two regular       *)
(* expressions of rate_stock and json.loads act on what the reply holds.   *)
(* Numbers with a fraction (confidence) are kept in hundredths.            *)
(***************************************************************************)
EXTENDS Integers, Sequences, FiniteSets, TLC

\* ------------------------------------------------------------- bounds
\* Longest batch handed to batch_analyze_stocks.
MaxBatch == 2
\* Longest free-form model reply, in segments.
MaxSegs == 3

\* ------------------------------------------------------- JSON values
\* A key that the object does not hold.
JAbsent == [t |-> "absent"]
JNull == [t |-> "null"]
JStr(s) == [t |-> "str", s |-> s]
JNum(n) == [t |-> "num", n |-> n]
\* A list of strings, s standing for its items.
JList(s) == [t |-> "list", s |-> s]
\* An f-string: template s with the string argument m and the text argument x.
JFmt(s, m, x) == [t |-> "str", s |-> s, m |-> m, x |-> x]

RequiredFields ==
  <<"rating", "confidence", "reasoning", "key_factors", "risk_factors",
    "recommendation_summary">>

\* A string value that itself holds a fenced, brace-delimited snippet.
FenceStr == "see FENCE{w}FENCE"

RatingVals ==
  {JAbsent, JNull, JStr("Strong Buy"), JStr("Buy"), JStr("Hold"), JStr("Sell"),
   JStr("Strong Sell"), JStr("STRONG_BUY")}
ConfVals ==
  {JAbsent, JNull, JNum(-10), JNum(80), JNum(150), JStr("high"), JStr("0.8")}
TextVals == {JAbsent, JNull, JStr("text")}
ListVals == {JAbsent, JNull, JList("items")}

\* The objects a model reply may hold.
AllObjs ==
  [rating : RatingVals, confidence : ConfVals,
   reasoning : TextVals \cup {JStr(FenceStr)},
   key_factors : ListVals, risk_factors : {JAbsent, JList("items")},
   recommendation_summary : {JAbsent, JStr("text")}]

EmptyObj ==
  [rating |-> JAbsent, confidence |-> JAbsent, reasoning |-> JAbsent,
   key_factors |-> JAbsent, risk_factors |-> JAbsent,
   recommendation_summary |-> JAbsent]

Obj(r, c) ==
  [rating |-> r, confidence |-> c, reasoning |-> JStr("text"),
   key_factors |-> JList("items"), risk_factors |-> JList("items"),
   recommendation_summary |-> JStr("text")]

GoodObj == Obj(JStr("Buy"), JNum(80))
OtherObj == Obj(JStr("Sell"), JNum(80))

\* --------------------------------------------------------------- text
\* c: "s" white space, "w" a word of prose, "W" a long passage of prose, "F" a
\* fence of three backquotes, "FJ" such a fence followed by json,
\* "{" "}" braces, "b" the members of object o, "b1"/"b2" the members of o
\* before/after a fenced snippet inside one of its strings.
Tok(c) == [c |-> c]
TokB(c, o) == [c |-> c, o |-> o]

\* The JSON text of an object.
ObjText(o) ==
  IF o = EmptyObj THEN <<Tok("{"), Tok("}")>>
  ELSE IF o.reasoning = JStr(FenceStr)
  THEN <<Tok("{"), TokB("b1", o), Tok("F"), Tok("{"), Tok("w"), Tok("}"),
         Tok("F"), TokB("b2", o), Tok("}")>>
  ELSE <<Tok("{"), TokB("b", o), Tok("}")>>

\* len(): the characters of one token; a token cut by a slice keeps n of them.
TokLen(t) ==
  IF "n" \in DOMAIN t THEN t.n
  ELSE IF t.c = "W" THEN 250
  ELSE IF t.c = "b" THEN 120
  ELSE IF t.c \in {"b1", "b2"} THEN 60
  ELSE IF t.c = "FJ" THEN 7
  ELSE IF t.c = "F" THEN 3
  ELSE 1
RECURSIVE TextLen(_)
TextLen(text) == IF text = <<>> THEN 0 ELSE TokLen(Head(text)) + TextLen(Tail(text))
\* text[:n]: the first n characters; the token that n falls in is cut.
RECURSIVE Slice(_, _)
Slice(text, n) ==
  IF text = <<>> \/ n <= 0 THEN <<>>
  ELSE IF TokLen(Head(text)) <= n
  THEN <<Head(text)>> \o Slice(Tail(text), n - TokLen(Head(text)))
  ELSE <<[c |-> Head(text).c, n |-> n]>>

Min(S) == CHOOSE x \in S : \A y \in S : x <= y
Max(S) == CHOOSE x \in S : \A y \in S : y <= x

\* ---------------------------------------------------------- exceptions
Exc(type, msg) == [type |-> type, msg |-> msg]
NoExc == Exc("", "")
\* The classes the model's collaborators raise, all subclasses of Exception.
ExceptionTypes ==
  {"ValueError", "KeyError", "TypeError", "JSONDecodeError", "RequestException",
   "FileNotFoundError", "RuntimeError", "OSError", "ZeroDivisionError"}
\* Mutant: every handler is written except ValueError.
MutCatchesValueErrorOnly(handler, type) == type \in {"ValueError", "JSONDecodeError"}
\* except <handler> as e: whether the clause catches an exception of class type.
\* json.JSONDecodeError is a subclass of ValueError.
Catches(handler, type) ==
  IF handler = "Exception" THEN type \in ExceptionTypes
  ELSE IF handler = "ValueError" THEN type \in {"ValueError", "JSONDecodeError"}
  ELSE type = handler

\* ------------------------------------------------------ ratings/rater.py
\* class Rating(Enum): member name -> value.
Rating ==
  [STRONG_BUY |-> "Strong Buy", BUY |-> "Buy", HOLD |-> "Hold", SELL |-> "Sell",
   STRONG_SELL |-> "Strong Sell"]
RatingMembers == DOMAIN Rating

\* Mutant: the string of the reply is kept as the rating, unchecked.
MutRatingLookup(v) ==
  [ok |-> TRUE, member |-> IF v.t = "str" THEN v.s ELSE "None", exc |-> NoExc]
\* Rating(value): the member with that value, or ValueError.
RatingLookup(v) ==
  IF v.t = "str" /\ \E m \in RatingMembers : Rating[m] = v.s
  THEN [ok |-> TRUE, member |-> CHOOSE m \in RatingMembers : Rating[m] = v.s,
        exc |-> NoExc]
  ELSE [ok |-> FALSE, member |-> "", exc |-> Exc("ValueError", "is not a valid Rating")]

\* The strings float() reads as a number, with the number.
NumericStrings == [x \in {"0.8"} |-> 80]
\* float(value).
Float(v) ==
  IF v.t = "num" THEN [ok |-> TRUE, n |-> v.n, exc |-> NoExc]
  ELSE IF v.t = "str" /\ v.s \in DOMAIN NumericStrings
  THEN [ok |-> TRUE, n |-> NumericStrings[v.s], exc |-> NoExc]
  ELSE IF v.t = "str"
  THEN [ok |-> FALSE, n |-> 0, exc |-> Exc("ValueError", "could not convert string to float")]
  ELSE [ok |-> FALSE, n |-> 0, exc |-> Exc("TypeError", "float() argument must be a string or a number")]

RatingResult(rating, confidence, reasoning, key_factors, risk_factors, summary) ==
  [rating |-> rating, confidence |-> confidence, reasoning |-> reasoning,
   key_factors |-> key_factors, risk_factors |-> risk_factors,
   recommendation_summary |-> summary]
\* No verdict (the variable is not bound yet).
NoResult == RatingResult("", 0, JAbsent, JAbsent, JAbsent, JAbsent)

\* response_text[:200]
PrefixLen == 200
\* Mutant: the whole reply is quoted.
MutPrefixWhole(text) == text
Prefix(text) == Slice(text, PrefixLen)

\* _create_fallback_rating
CreateFallbackRating(response_text) ==
  RatingResult("HOLD", 50,
    JFmt("Unable to parse AI response. Raw response: {}...", "", Prefix(response_text)),
    JList("Analysis incomplete due to parsing error"),
    JList("Unable to complete full analysis"),
    JStr("Hold recommendation due to analysis limitations."))

\* _create_error_rating
CreateErrorRating(error_message) ==
  RatingResult("HOLD", 0,
    JFmt("Analysis failed with error: {}", error_message, <<>>),
    JList("Analysis could not be completed"),
    JList("Unable to assess risks due to analysis failure"),
    JStr("Unable to provide recommendation due to analysis error."))

\* response.content.strip()
Strip(text) ==
  LET idx == {i \in 1..Len(text) : text[i].c # "s"}
  IN IF idx = {} THEN <<>> ELSE SubSeq(text, Min(idx), Max(idx))

IsFence(t) == t.c \in {"F", "FJ"}
\* The first position after i that holds no white space (0: none).
NextNonWs(text, i) ==
  LET idx == {k \in (i + 1)..Len(text) : text[k].c # "s"}
  IN IF idx = {} THEN 0 ELSE Min(idx)
\* A closing brace at j that is followed, after white space, by a fence.
ClosesBlock(text, j) ==
  /\ text[j].c = "}"
  /\ NextNonWs(text, j) # 0
  /\ IsFence(text[NextNonWs(text, j)])

NoMatch == [found |-> FALSE, str |-> <<>>]
\* re.search(r'FENCE(?:json)?\s*(\{.*?\})\s*FENCE', response_text, re.DOTALL):
\* the leftmost fence followed by a brace from which some closing brace is
\* followed by a fence; group(1) runs to the first such closing brace.
FencedMatch(text) ==
  LET starts ==
        {i \in 1..Len(text) :
           /\ IsFence(text[i])
           /\ NextNonWs(text, i) # 0
           /\ text[NextNonWs(text, i)].c = "{"
           /\ \E j \in (NextNonWs(text, i) + 1)..Len(text) : ClosesBlock(text, j)}
  IN IF starts = {} THEN NoMatch
     ELSE LET k == NextNonWs(text, Min(starts))
              j == Min({e \in (k + 1)..Len(text) : ClosesBlock(text, e)})
          IN [found |-> TRUE, str |-> SubSeq(text, k, j)]

\* re.search(r'\{.*\}', response_text, re.DOTALL): from the first opening
\* brace to the last closing brace after it.
GreedyMatch(text) ==
  LET opens == {i \in 1..Len(text) : text[i].c = "{"}
      closes == {j \in 1..Len(text) : text[j].c = "}"}
  IN IF opens = {} \/ {j \in closes : j > Min(opens)} = {} THEN NoMatch
     ELSE [found |-> TRUE, str |-> SubSeq(text, Min(opens), Max(closes))]

NotWs(t) == t.c # "s"
\* json.loads(json_str): white space around the members is skipped.
JsonLoads(json_str) ==
  LET t == SelectSeq(json_str, NotWs)
      fail == [ok |-> FALSE, val |-> EmptyObj,
               exc |-> Exc("JSONDecodeError", "Expecting value")]
  IN IF t = <<Tok("{"), Tok("}")>> THEN [ok |-> TRUE, val |-> EmptyObj, exc |-> NoExc]
     ELSE IF Len(t) = 3 /\ t[2].c = "b" /\ t = ObjText(t[2].o)
     THEN [ok |-> TRUE, val |-> t[2].o, exc |-> NoExc]
     ELSE IF Len(t) = 9 /\ t[2].c = "b1" /\ t = ObjText(t[2].o)
     THEN [ok |-> TRUE, val |-> t[2].o, exc |-> NoExc]
     ELSE fail

\* rate_stock, the inner try: the json_str the two searches select, loaded.
ExtractJson(response_text) ==
  LET fenced == FencedMatch(response_text)
      greedy == GreedyMatch(response_text)
  IN IF fenced.found THEN JsonLoads(fenced.str)
     ELSE IF greedy.found THEN JsonLoads(greedy.str)
     ELSE [ok |-> FALSE, val |-> EmptyObj,
           exc |-> Exc("JSONDecodeError", "No JSON object found in response")]

\* rating_data[key]
GetItem(rating_data, key) ==
  IF rating_data[key].t = "absent"
  THEN [ok |-> FALSE, v |-> JAbsent, exc |-> Exc("KeyError", key)]
  ELSE [ok |-> TRUE, v |-> rating_data[key], exc |-> NoExc]

\* The first key of RequiredFields, in the order the constructor's arguments
\* are evaluated, that rating_data does not hold (0: it holds them all).
FirstMissing(rating_data) ==
  LET miss == {i \in 1..Len(RequiredFields) :
                 rating_data[RequiredFields[i]].t = "absent"}
  IN IF miss = {} THEN 0 ELSE Min(miss)

\* RatingResult(rating=Rating(rating_data["rating"]), confidence=float(...), ...):
\* the arguments are evaluated in order and the first exception ends it.
CreateRatingResult(rating_data) ==
  LET fail(e) == [ok |-> FALSE, val |-> NoResult, exc |-> e]
      miss == FirstMissing(rating_data)
      r == RatingLookup(rating_data.rating)
      c == Float(rating_data.confidence)
  IN IF miss = 1 THEN fail(GetItem(rating_data, "rating").exc)
     ELSE IF ~r.ok THEN fail(r.exc)
     ELSE IF miss = 2 THEN fail(GetItem(rating_data, "confidence").exc)
     ELSE IF ~c.ok THEN fail(c.exc)
     ELSE IF miss # 0 THEN fail(GetItem(rating_data, RequiredFields[miss]).exc)
     ELSE [ok |-> TRUE, exc |-> NoExc,
           val |-> RatingResult(r.member, c.n, rating_data.reasoning,
                     rating_data.key_factors, rating_data.risk_factors,
                     rating_data.recommendation_summary)]

\* How rate_stock ends: with a verdict, or with an exception leaving it.
Returned(verdict) == [raised |-> FALSE, exc |-> NoExc, verdict |-> verdict]
Raised(e) == [raised |-> TRUE, exc |-> e, verdict |-> NoResult]
NotReturned == [raised |-> FALSE, exc |-> NoExc, verdict |-> NoResult]
\* Mutant: the outer handler answers with the parsing-fallback verdict.
MutExceptGivesFallback(e) == Returned(CreateFallbackRating(<<>>))
\* Mutant: the outer handler logs and raises again.
MutExceptRaisesAgain(e) == Raised(e)
\* rate_stock's outer handler, except Exception as e: the error verdict; an
\* exception the clause does not catch leaves rate_stock.
RateStockExcept(e) ==
  IF Catches("Exception", e.type) THEN Returned(CreateErrorRating(e.msg))
  ELSE Raised(e)
\* rate_stock's inner handler, except json.JSONDecodeError: the fallback verdict.
RateStockParseExcept(e, response_text) ==
  IF Catches("JSONDecodeError", e.type)
  THEN Returned(CreateFallbackRating(response_text))
  ELSE RateStockExcept(e)

\* ------------------------------------------------ the environment
\* Stock symbols handed to the pipeline.
Subjects == {"aaa", "BBB"}
\* str.upper()
Upper(symbol) == IF symbol = "aaa" THEN "AAA" ELSE symbol

\* What the collaborators return when they do not raise.
FinancialHtml(symbol) == <<"<table>", symbol>>
CompanySentiment(symbol) == <<"company sentiment", symbol>>
SectorSentiment(symbol) == <<"sector sentiment", symbol>>
NoText == <<>>

\* What one collaborator does when called: it returns, or raises exc.
Ok == [ok |-> TRUE, exc |-> NoExc]
Raise(type, msg) == [ok |-> FALSE, exc |-> Exc(type, msg)]

\* What the collaborators do during one run: the fundamentals gatherer, the
\* sentiment collator, the prompt template (open/format), the chat model, and
\* the content of the chat model's reply.
Script(fund, sent, prompt, call, reply) ==
  [fund |-> fund, sent |-> sent, prompt |-> prompt, call |-> call, reply |-> reply]

\* Replies built from segments.
Segments ==
  {<<Tok("s")>>, <<Tok("w")>>, <<Tok("F")>>, <<Tok("FJ")>>, <<Tok("{")>>,
   <<Tok("}")>>, <<Tok("{"), Tok("w"), Tok("}")>>,
   <<Tok("FJ"), Tok("{"), Tok("w"), Tok("}"), Tok("F")>>,
   ObjText(GoodObj), ObjText(OtherObj)}
RECURSIVE SegReplies(_)
SegReplies(n) ==
  IF n = 0 THEN {<<>>}
  ELSE SegReplies(n - 1) \cup
       {r \o g : r \in SegReplies(n - 1), g \in Segments}

\* An object alone, and the same object in a fenced block between prose.
Bare(o) == ObjText(o)
Fenced(o) == <<Tok("w"), Tok("FJ"), Tok("s")>> \o ObjText(o) \o <<Tok("s"), Tok("F"), Tok("w")>>

\* The objects that are also sent in a fenced block: every rating and confidence,
\* the other fields held.
FencedObjs ==
  {o \in AllObjs :
     /\ o.reasoning.t = "str"
     /\ o.key_factors.t = "list"
     /\ o.risk_factors.t = "list"
     /\ o.recommendation_summary.t = "str"}

\* Replies longer than the prefix the fallback verdict quotes.
LongReplies ==
  {<<Tok("W")>>, <<Tok("w"), Tok("s"), Tok("W")>>,
   <<Tok("W"), Tok("{"), Tok("w"), Tok("}")>>,
   <<Tok("W"), Tok("s")>> \o ObjText(GoodObj)}

\* The replies rate_stock is checked on.
Replies ==
  SegReplies(MaxSegs) \cup {Bare(o) : o \in AllObjs} \cup {Fenced(o) : o \in FencedObjs}
  \cup LongReplies

RateScripts ==
  {Script(Ok, Ok, Raise("FileNotFoundError", "prompts/stock_rating.md"), Ok, <<>>),
   Script(Ok, Ok, Ok, Raise("RuntimeError", "rate limit"), <<>>),
   Script(Ok, Ok, Ok, Raise("RequestException", "timeout"), <<>>)}
  \cup {Script(Ok, Ok, Ok, Ok, r) : r \in Replies}

\* The replies the batch is checked on: one for each way rate_stock ends.
PipelineReplies ==
  {Bare(GoodObj), Bare(OtherObj), Fenced(Obj(JStr("Strong Buy"), JNum(150))),
   Bare(Obj(JStr("STRONG_BUY"), JNum(80))), Bare(Obj(JStr("Hold"), JAbsent)),
   Bare(Obj(JNull, JStr("high"))), Bare(Obj(JStr("Sell"), JNull)), <<Tok("w")>>,
   <<Tok("FJ"), Tok("{"), Tok("w"), Tok("}"), Tok("F")>> \o Bare(GoodObj)}
PipelineScripts ==
  {Script(Raise("ValueError", "API Error"), Ok, Ok, Ok, <<>>),
   Script(Raise("RequestException", "timeout"), Ok, Ok, Ok, <<>>),
   Script(Ok, Raise("KeyError", "results"), Ok, Ok, <<>>),
   Script(Ok, Ok, Raise("FileNotFoundError", "prompts/stock_rating.md"), Ok, <<>>),
   Script(Ok, Ok, Ok, Raise("RuntimeError", "rate limit"), <<>>)}
  \cup {Script(Ok, Ok, Ok, Ok, r) : r \in PipelineReplies}
NoScript == Script(Ok, Ok, Ok, Ok, <<>>)

RECURSIVE SymbolLists(_)
SymbolLists(n) ==
  IF n = 0 THEN {<<>>}
  ELSE SymbolLists(n - 1) \cup
       {Append(l, x) : l \in {l \in SymbolLists(n - 1) : Len(l) = n - 1}, x \in Subjects}

\* ------------------------------------------------------------ state
VARIABLES
  stock_symbols,        \* batch_analyze_stocks: the argument
  i,                    \* batch_analyze_stocks: subjects taken from the list
  results,              \* batch_analyze_stocks: results
  scripts,              \* what the collaborators did for each subject taken
  pc,                   \* where analyze_stock / batch_analyze_stocks stands
  stock_symbol,         \* analyze_stock: the argument
  financial_data_html,  \* analyze_stock: locals
  company_sentiment,
  sector_sentiment,
  rating_result,
  exc,                  \* analyze_stock: the exception in flight
  ret,                  \* analyze_stock: the value returned
  calls,                \* the collaborators called during this run, in order
  script,               \* what the collaborators do during this run
  rpc,                  \* where rate_stock stands
  rin,                  \* rate_stock: the arguments
  prompt,               \* rate_stock: locals
  response_text,
  rating_data,
  rout,                 \* rate_stock: how it ended
  files,                \* the file system: the files written, name and content
  now,                  \* the clock datetime.now() reads
  log,                  \* the calls made on the pipeline, with how each ended
  cmd,                  \* main.batch: the arguments and options
  cpc,                  \* main.batch: where the command stands
  exit_code             \* main.batch: the exit code of the process

batchVars == <<stock_symbols, i, results, scripts>>
runVars ==
  <<pc, stock_symbol, financial_data_html, company_sentiment, sector_sentiment,
    rating_result, exc, ret, calls>>
raterVars == <<rpc, rin, prompt, response_text, rating_data, rout>>
outVars == <<files, now, log, cmd, cpc, exit_code>>
vars == <<batchVars, runVars, script, raterVars, outVars>>

\* ---------------------------------------------- pipelines/pipelines.py
StockAnalysisResult(symbol, html, company, sector, rating, success, error) ==
  [stock_symbol |-> symbol, financial_data_html |-> html,
   company_sentiment |-> company, sector_sentiment |-> sector,
   rating_result |-> rating, success |-> success, error_message |-> error]
\* error_message: Optional[str] = None
None == "<None>"
NoRecord == StockAnalysisResult("", NoText, NoText, NoText, NoResult, FALSE, None)

\* _create_error_rating_result
CreateErrorRatingResult ==
  RatingResult("HOLD", 0,
    JStr("Analysis failed - unable to complete rating"),
    JList("Analysis could not be completed"),
    JList("Unable to assess risks due to analysis failure"),
    JStr("Unable to provide recommendation due to analysis error."))

RaterCall(html, company, sector, name) ==
  [financial_data_html |-> html, company_sentiment |-> company,
   sector_sentiment |-> sector, company_name |-> name]
NoCall == RaterCall(NoText, NoText, NoText, "")

\* Mutant: a stage that raised is logged and the run goes on.
MutStageFailureIgnored(step, ok) ==
  IF step = "fund" THEN "sent" ELSE IF step = "sent" THEN "rate" ELSE "build"
\* analyze_stock's try block: the step that follows a step that returned
\* (ok) or raised.
NextStep(step, ok) ==
  IF ~ok THEN "except"
  ELSE IF step = "fund" THEN "sent" ELSE IF step = "sent" THEN "rate" ELSE "build"
FirstStep == "fund"

\* analyze_stock, the record of a completed analysis.
SuccessRecord(symbol, html, company, sector, rating) ==
  StockAnalysisResult(Upper(symbol), html, company, sector, rating, TRUE, None)
\* Mutant: the failed record is built with success=True and no message.
MutErrorRecordKeepsSuccess(symbol, e) ==
  StockAnalysisResult(Upper(symbol), NoText, NoText, NoText,
                      CreateErrorRatingResult, TRUE, None)
\* analyze_stock, except Exception as e: the record of a failed analysis.
ErrorRecord(symbol, e) ==
  StockAnalysisResult(Upper(symbol), NoText, NoText, NoText,
                      CreateErrorRatingResult, FALSE, e.msg)

\* Mutant: only successful records are appended.
MutDropFailed(rs, r) == IF r.success THEN Append(rs, r) ELSE rs
\* batch_analyze_stocks: results.append(result)
AppendResult(rs, r) == Append(rs, r)
\* Mutant: the loop breaks at the first failed record.
MutStopAtFailure(r) == r.success
\* batch_analyze_stocks: the loop goes on to the next symbol whatever r is.
LoopContinues(r) == TRUE

\* ------------------------------------------------- rate_stock, by step
\* rate_stock ends: it returns a verdict or an exception leaves it.
RaterEnd(out) ==
  /\ rout' = out
  /\ rpc' = "returned"

\* _create_rating_prompt: open("prompts/stock_rating.md").read().format(...)
RaterCreatePrompt ==
  /\ rpc = "prompt"
  /\ IF script.prompt.ok
     THEN /\ prompt' = rin
          /\ rpc' = "call"
          /\ rout' = rout
     ELSE /\ RaterEnd(RateStockExcept(script.prompt.exc))
          /\ prompt' = prompt
  /\ UNCHANGED <<outVars, batchVars, runVars, script, rin, response_text, rating_data>>

\* response = self.chat_model([...]); response_text = response.content.strip()
RaterCallModel ==
  /\ rpc = "call"
  /\ IF script.call.ok
     THEN /\ response_text' = Strip(script.reply)
          /\ rpc' = "parse"
          /\ rout' = rout
     ELSE /\ RaterEnd(RateStockExcept(script.call.exc))
          /\ response_text' = response_text
  /\ UNCHANGED <<outVars, batchVars, runVars, script, rin, prompt, rating_data>>

\* The inner try: the two searches, json.loads, and the JSONDecodeError handler.
RaterParseJson ==
  /\ rpc = "parse"
  /\ LET r == ExtractJson(response_text)
     IN IF r.ok
        THEN /\ rating_data' = r.val
             /\ rpc' = "build"
             /\ rout' = rout
        ELSE /\ RaterEnd(RateStockParseExcept(r.exc, response_text))
             /\ rating_data' = rating_data
  /\ UNCHANGED <<outVars, batchVars, runVars, script, rin, prompt, response_text>>

\* rating_result = RatingResult(...); return rating_result
RaterCreateResult ==
  /\ rpc = "build"
  /\ LET r == CreateRatingResult(rating_data)
     IN RaterEnd(IF r.ok THEN Returned(r.val) ELSE RateStockExcept(r.exc))
  /\ UNCHANGED <<outVars, batchVars, runVars, script, rin, prompt, response_text, rating_data>>

RaterNext ==
  \/ RaterCreatePrompt
  \/ RaterCallModel
  \/ RaterParseJson
  \/ RaterCreateResult

\* ---------------------------------------------- analyze_stock, by step
\* financial_data_html = self._get_financial_data(stock_symbol)
GetFinancialData ==
  /\ pc = "fund"
  /\ calls' = Append(calls, "financial_gatherer")
  /\ pc' = NextStep("fund", script.fund.ok)
  /\ IF script.fund.ok
     THEN /\ financial_data_html' = FinancialHtml(stock_symbol)
          /\ exc' = exc
     ELSE /\ exc' = script.fund.exc
          /\ financial_data_html' = financial_data_html
  /\ UNCHANGED <<outVars, batchVars, stock_symbol, company_sentiment, sector_sentiment,
                 rating_result, ret, script, raterVars>>

\* company_sentiment, sector_sentiment = self._get_sentiment_analysis(stock_symbol)
GetSentimentAnalysis ==
  /\ pc = "sent"
  /\ calls' = Append(calls, "sentiment_collator")
  /\ pc' = NextStep("sent", script.sent.ok)
  /\ IF script.sent.ok
     THEN /\ company_sentiment' = CompanySentiment(stock_symbol)
          /\ sector_sentiment' = SectorSentiment(stock_symbol)
          /\ exc' = exc
     ELSE /\ exc' = script.sent.exc
          /\ UNCHANGED <<company_sentiment, sector_sentiment>>
  /\ UNCHANGED <<outVars, batchVars, stock_symbol, financial_data_html, rating_result, ret,
                 script, raterVars>>

\* _generate_rating calls self.stock_rater.rate_stock(...)
GenerateRating ==
  /\ pc = "rate"
  /\ calls' = Append(calls, "stock_rater")
  /\ pc' = "rating"
  /\ rin' = RaterCall(financial_data_html, company_sentiment, sector_sentiment,
                      stock_symbol)
  /\ rpc' = "prompt"
  /\ prompt' = NoCall
  /\ response_text' = <<>>
  /\ rating_data' = EmptyObj
  /\ rout' = NotReturned
  /\ UNCHANGED <<outVars, batchVars, stock_symbol, financial_data_html, company_sentiment,
                 sector_sentiment, rating_result, exc, ret, script>>

\* rate_stock is back: _generate_rating returns its verdict or re-raises.
RatingReturn ==
  /\ pc = "rating"
  /\ rpc = "returned"
  /\ pc' = NextStep("rate", ~rout.raised)
  /\ IF rout.raised
     THEN /\ exc' = rout.exc
          /\ rating_result' = rating_result
     ELSE /\ rating_result' = rout.verdict
          /\ exc' = exc
  /\ rpc' = "idle"
  /\ UNCHANGED <<outVars, batchVars, stock_symbol, financial_data_html, company_sentiment,
                 sector_sentiment, ret, calls, script, rin, prompt, response_text,
                 rating_data, rout>>

\* result = StockAnalysisResult(..., success=True); return result
BuildResult ==
  /\ pc = "build"
  /\ ret' = SuccessRecord(stock_symbol, financial_data_html, company_sentiment,
                          sector_sentiment, rating_result)
  /\ pc' = "returned"
  /\ UNCHANGED <<outVars, batchVars, stock_symbol, financial_data_html, company_sentiment,
                 sector_sentiment, rating_result, exc, calls, script, raterVars>>

\* except Exception as e: return StockAnalysisResult(..., success=False, ...)
HandleError ==
  /\ pc = "except"
  /\ IF Catches("Exception", exc.type)
     THEN /\ ret' = ErrorRecord(stock_symbol, exc)
          /\ pc' = "returned"
     ELSE /\ ret' = ret
          /\ pc' = "propagated"
  /\ UNCHANGED <<outVars, batchVars, stock_symbol, financial_data_html, company_sentiment,
                 sector_sentiment, rating_result, exc, calls, script, raterVars>>

AnalyzeNext ==
  \/ GetFinancialData
  \/ GetSentimentAnalysis
  \/ GenerateRating
  \/ RatingReturn
  \/ BuildResult
  \/ HandleError

\* ------------------------------------------ batch_analyze_stocks, by step
\* for i, symbol in enumerate(stock_symbols, 1): result = self.analyze_stock(symbol)
LoopNext ==
  /\ pc = "loop"
  /\ i < Len(stock_symbols)
  /\ \E sc \in PipelineScripts :
       /\ script' = sc
       /\ scripts' = Append(scripts, sc)
  /\ stock_symbol' = stock_symbols[i + 1]
  /\ pc' = FirstStep
  /\ financial_data_html' = NoText
  /\ company_sentiment' = NoText
  /\ sector_sentiment' = NoText
  /\ rating_result' = NoResult
  /\ exc' = NoExc
  /\ ret' = NoRecord
  /\ calls' = <<>>
  /\ UNCHANGED <<stock_symbols, i, results, raterVars, outVars>>

\* results.append(result), and on to the next symbol
LoopAppend ==
  /\ pc = "returned"
  /\ results' = AppendResult(results, ret)
  /\ i' = i + 1
  /\ pc' = IF LoopContinues(ret) THEN "loop" ELSE "done"
  /\ UNCHANGED <<stock_symbols, scripts, stock_symbol, financial_data_html,
                 company_sentiment, sector_sentiment, rating_result, exc, ret,
                 calls, script, raterVars, outVars>>

\* return results
BatchReturn ==
  /\ pc = "loop"
  /\ i = Len(stock_symbols)
  /\ pc' = "done"
  /\ UNCHANGED <<outVars, batchVars, stock_symbol, financial_data_html, company_sentiment,
                 sector_sentiment, rating_result, exc, ret, calls, script, raterVars>>

\* ---------------------------------------------------- specifications
InitRun ==
  /\ stock_symbol = ""
  /\ financial_data_html = NoText
  /\ company_sentiment = NoText
  /\ sector_sentiment = NoText
  /\ rating_result = NoResult
  /\ exc = NoExc
  /\ ret = NoRecord
  /\ calls = <<>>

\* Nothing exported yet, no command running.
InitOutputs ==
  /\ files = {}
  /\ now = 0
  /\ log = <<>>
  /\ cmd = <<>>
  /\ cpc = "none"
  /\ exit_code = 0

InitRater ==
  /\ prompt = NoCall
  /\ response_text = <<>>
  /\ rating_data = EmptyObj
  /\ rout = NotReturned

\* batch_analyze_stocks(stock_symbols) on a pipeline just constructed.
Init ==
  /\ stock_symbols \in SymbolLists(MaxBatch)
  /\ i = 0
  /\ results = <<>>
  /\ scripts = <<>>
  /\ pc = "loop"
  /\ InitRun
  /\ script = NoScript
  /\ rpc = "idle"
  /\ rin = NoCall
  /\ InitRater
  /\ InitOutputs

Next ==
  \/ LoopNext
  \/ LoopAppend
  \/ BatchReturn
  \/ AnalyzeNext
  \/ RaterNext

Spec == Init /\ [][Next]_vars

\* rate_stock(...) called on its own, on every reply of Replies.
InitRate ==
  /\ stock_symbols = <<>>
  /\ i = 0
  /\ results = <<>>
  /\ scripts = <<>>
  /\ pc = "direct"
  /\ InitRun
  /\ script \in RateScripts
  /\ rpc = "prompt"
  /\ \E name \in Subjects :
       rin = RaterCall(FinancialHtml(name), CompanySentiment(name),
                       SectorSentiment(name), name)
  /\ InitRater
  /\ InitOutputs

SpecRate == InitRate /\ [][RaterNext]_vars

\* analyze_stock(stock_symbol) called on its own, on every reply of Replies.
AnalyzeScripts ==
  RateScripts \cup {sc \in PipelineScripts : ~sc.fund.ok \/ ~sc.sent.ok}

InitAnalyzeOn(Scripts) ==
  /\ stock_symbols = <<>>
  /\ i = 0
  /\ results = <<>>
  /\ scripts = <<>>
  /\ pc = FirstStep
  /\ stock_symbol \in Subjects
  /\ financial_data_html = NoText
  /\ company_sentiment = NoText
  /\ sector_sentiment = NoText
  /\ rating_result = NoResult
  /\ exc = NoExc
  /\ ret = NoRecord
  /\ calls = <<>>
  /\ script \in Scripts
  /\ rpc = "idle"
  /\ rin = NoCall
  /\ InitRater
  /\ InitOutputs

NextAnalyze ==
  \/ AnalyzeNext
  \/ RaterNext

InitAnalyze == InitAnalyzeOn(AnalyzeScripts)
SpecAnalyze == InitAnalyze /\ [][NextAnalyze]_vars

\* analyze_stock(stock_symbol) run to its end (the interpreter executes one call
\* without stopping), on one script for each way a run can go.
InitAnalyzeFair == InitAnalyzeOn(PipelineScripts)
SpecAnalyzeFair == InitAnalyzeFair /\ [][NextAnalyze]_vars /\ WF_vars(NextAnalyze)

\* ------------------------------------------------------------ claims
\* rate_stock as one function of what the collaborators do.
RateStock(sc) ==
  IF ~sc.prompt.ok THEN RateStockExcept(sc.prompt.exc)
  ELSE IF ~sc.call.ok THEN RateStockExcept(sc.call.exc)
  ELSE LET text == Strip(sc.reply)
           r == ExtractJson(text)
       IN IF ~r.ok THEN RateStockParseExcept(r.exc, text)
          ELSE LET b == CreateRatingResult(r.val)
               IN IF b.ok THEN Returned(b.val) ELSE RateStockExcept(b.exc)

\* The model answered, and rate_stock is back.
Answered == rpc = "returned" /\ script.prompt.ok /\ script.call.ok

\* A run whose verdict is not read from a reply object: a stage or the model
\* call failed, no object could be parsed, a required field is missing, or the
\* rating or the confidence cannot be read.
Degraded(sc) ==
  \/ ~sc.fund.ok
  \/ ~sc.sent.ok
  \/ ~sc.prompt.ok
  \/ ~sc.call.ok
  \/ ~ExtractJson(Strip(sc.reply)).ok
  \/ LET o == ExtractJson(Strip(sc.reply)).val
     IN FirstMissing(o) # 0 \/ o.rating \notin {JStr(Rating[m]) : m \in RatingMembers}
        \/ o.confidence.t \notin {"num", "str"} \/ o.confidence = JStr("high")

\* C1: the record analyze_stock returns, and the verdict rate_stock returns,
\* always hold one of the five ratings, and HOLD on every degraded path.
C1_RatingInEnum ==
  /\ (rpc = "returned" /\ ~rout.raised) =>
       /\ rout.verdict.rating \in RatingMembers
       /\ Degraded(script) => rout.verdict.rating = "HOLD"
  /\ pc = "returned" =>
       /\ ret.rating_result.rating \in RatingMembers
       /\ Degraded(script) => ret.rating_result.rating = "HOLD"
C1_Witness ==
  /\ pc = "returned"
  /\ script.call.ok
  /\ rating_data.rating = JStr("STRONG_BUY")
  /\ ret.success
  /\ ret.rating_result.rating = "HOLD"

\* C2: analyze_stock never lets an exception leave it: whatever the stages do,
\* a run that has not returned can take a step, and it never ends raising.
C2_NoPropagation == [](pc # "propagated") /\ ((pc = FirstStep) ~> (pc = "returned"))
C2_Witness ==
  /\ pc = "returned"
  /\ ~script.fund.ok
  /\ script.fund.exc.type = "RequestException"
  /\ ret.stock_symbol = Upper(stock_symbol)

\* The exception of the stage that raised in this run, if one did.
StageRaised ==
  IF ~script.fund.ok THEN script.fund.exc
  ELSE IF ~script.sent.ok THEN script.sent.exc
  ELSE IF rout.raised THEN rout.exc
  ELSE NoExc

IsPrefix(a, b) == Len(a) <= Len(b) /\ a = SubSeq(b, 1, Len(a))
InCalls(name) == \E k \in 1..Len(calls) : calls[k] = name

\* C5: the stages are called in the order fundamentals, sentiment, rating, and
\* a stage that raises ends the run: no later stage is called.
C5_StageOrder ==
  /\ IsPrefix(calls, <<"financial_gatherer", "sentiment_collator", "stock_rater">>)
  /\ ~script.fund.ok => ~InCalls("sentiment_collator") /\ ~InCalls("stock_rater")
  /\ ~script.sent.ok => ~InCalls("stock_rater")
C5_Witness ==
  /\ pc = "returned"
  /\ ~script.sent.ok
  /\ calls = <<"financial_gatherer", "sentiment_collator">>

\* C6: batch_analyze_stocks returns one record per input symbol, the k-th
\* record being the k-th symbol's.
C6_SameLengthAndOrder ==
  /\ Len(results) <= Len(stock_symbols)
  /\ \A k \in 1..Len(results) : results[k].stock_symbol = Upper(stock_symbols[k])
  /\ pc = "done" => Len(results) = Len(stock_symbols)
C6_Witness ==
  /\ pc = "done"
  /\ stock_symbols = <<"BBB", "aaa">>
  /\ ~results[1].success
  /\ results[2].success

\* The record of one subject as a function of that subject's own outcomes.
OwnRecord(symbol, sc) ==
  IF ~sc.fund.ok THEN ErrorRecord(symbol, sc.fund.exc)
  ELSE IF ~sc.sent.ok THEN ErrorRecord(symbol, sc.sent.exc)
  ELSE SuccessRecord(symbol, FinancialHtml(symbol), CompanySentiment(symbol),
                     SectorSentiment(symbol), RateStock(sc).verdict)

\* C7: a failed subject does not end the batch, and each record is decided by
\* its own subject's outcomes alone.
C7_Isolation ==
  /\ \A k \in 1..Len(results) : results[k] = OwnRecord(stock_symbols[k], scripts[k])
  /\ pc = "done" => Len(results) = Len(stock_symbols)
C7_Witness ==
  /\ pc = "done"
  /\ Len(results) = 2
  /\ ~scripts[1].fund.ok
  /\ ~results[1].success
  /\ results[2].success
  /\ results[2].rating_result.rating = "BUY"

\* A verdict none of whose six fields is missing or None.
FullyPopulated(v) ==
  /\ v.rating \in RatingMembers
  /\ v.confidence \in Int
  /\ v.reasoning.t = "str"
  /\ v.key_factors.t = "list"
  /\ v.risk_factors.t = "list"
  /\ v.recommendation_summary.t = "str"

\* C3: rate_stock never raises and always returns a verdict with all six
\* fields populated, also when the parsed object is malformed.
C3_AlwaysFullyPopulated ==
  rpc = "returned" => ~rout.raised /\ FullyPopulated(rout.verdict)

\* The model answered and an object was parsed from the reply.
Parsed == Answered /\ ExtractJson(response_text).ok

\* C8: a parsed object that lacks a required field, or whose rating is not one
\* of the five, gives the parsing-fallback verdict: HOLD with confidence 0.5.
C8_MalformedGivesFallback ==
  (/\ Parsed
   /\ \/ FirstMissing(rating_data) # 0
      \/ rating_data.rating \notin {JStr(Rating[m]) : m \in RatingMembers})
  => /\ rout.verdict.rating = "HOLD"
     /\ rout.verdict.confidence = 50

\* The first balanced-delimiter substring: from the first opening brace to the
\* closing brace that matches it.
Count(text, c, a, b) == Cardinality({k \in a..b : text[k].c = c})
FirstBalanced(text) ==
  LET opens == {k \in 1..Len(text) : text[k].c = "{"}
  IN IF opens = {} THEN NoMatch
     ELSE LET a == Min(opens)
              ends == {b \in a..Len(text) :
                         Count(text, "{", a, b) = Count(text, "}", a, b)}
          IN IF ends = {} THEN NoMatch
             ELSE [found |-> TRUE, str |-> SubSeq(text, a, Min(ends))]

\* The extraction chain as specified: the whole reply, then the fenced block,
\* then the first balanced object; the first that parses wins.
Chain(text) ==
  IF JsonLoads(text).ok THEN JsonLoads(text)
  ELSE IF FencedMatch(text).found /\ JsonLoads(FencedMatch(text).str).ok
  THEN JsonLoads(FencedMatch(text).str)
  ELSE IF FirstBalanced(text).found THEN JsonLoads(FirstBalanced(text).str)
  ELSE [ok |-> FALSE, val |-> EmptyObj, exc |-> Exc("JSONDecodeError", "")]

\* What rate_stock returns once rating_data is parsed.
VerdictFrom(o) ==
  IF CreateRatingResult(o).ok THEN Returned(CreateRatingResult(o).val)
  ELSE RateStockExcept(CreateRatingResult(o).exc)

WellFormed(o) ==
  /\ o.rating \in {JStr(Rating[m]) : m \in RatingMembers}
  /\ o.confidence.t = "num"
  /\ o.reasoning.t = "str"
  /\ o.key_factors.t = "list"
  /\ o.risk_factors.t = "list"
  /\ o.recommendation_summary.t = "str"

\* The verdict holds the fields of object o.
SameFields(v, o) ==
  /\ v.rating \in RatingMembers
  /\ JStr(Rating[v.rating]) = o.rating
  /\ JNum(v.confidence) = o.confidence
  /\ v.reasoning = o.reasoning
  /\ v.key_factors = o.key_factors
  /\ v.risk_factors = o.risk_factors
  /\ v.recommendation_summary = o.recommendation_summary

\* C10: a reply that is exactly one well-formed object gives a verdict whose
\* every field equals the object's.
C10_BareObjectVerbatim ==
  \A o \in AllObjs :
    (Answered /\ WellFormed(o) /\ response_text = ObjText(o)) =>
       ~rout.raised /\ SameFields(rout.verdict, o)

\* The reply that holds object o alone.
BareScript(o) == Script(Ok, Ok, Ok, Ok, Bare(o))

\* C11: the same well-formed object, sent in a fenced block with prose before
\* and after it, gives the verdict that the bare object gives, field by field.
C11_FencedSameAsBare ==
  \A o \in FencedObjs :
    (Answered /\ WellFormed(o) /\ script.reply = Fenced(o)) =>
       rout = RateStock(BareScript(o))

\* No part of the text is an object json.loads reads.
HoldsNoObject(text) ==
  \A a \in 1..Len(text) : \A b \in a..Len(text) : ~JsonLoads(SubSeq(text, a, b)).ok

\* C12: a reply of prose that holds no parseable object gives the fallback
\* verdict, the same for every such reply but for the quoted prefix: HOLD,
\* confidence 0.5, the one key factor "Analysis incomplete due to parsing
\* error", and a reasoning that quotes the first 200 characters of the reply
\* and no more.
C12_ProseGivesFallback ==
  (Answered /\ HoldsNoObject(script.reply)) =>
     /\ ~rout.raised
     /\ rout.verdict.rating = "HOLD"
     /\ rout.verdict.confidence = 50
     /\ rout.verdict.key_factors = JList("Analysis incomplete due to parsing error")
     /\ rout.verdict.risk_factors = JList("Unable to complete full analysis")
     /\ rout.verdict.recommendation_summary =
          JStr("Hold recommendation due to analysis limitations.")
     /\ rout.verdict.reasoning.s = "Unable to parse AI response. Raw response: {}..."
     /\ TextLen(rout.verdict.reasoning.x) <= PrefixLen
     /\ rout.verdict.reasoning.x = Slice(response_text, TextLen(rout.verdict.reasoning.x))
     /\ TextLen(response_text) <= PrefixLen => rout.verdict.reasoning.x = response_text
C12_Witness ==
  /\ Answered
  /\ script.reply = <<Tok("w"), Tok("s"), Tok("W")>>
  /\ TextLen(response_text) > PrefixLen
  /\ TextLen(rout.verdict.reasoning.x) = PrefixLen
  /\ rout.verdict.confidence = 50

\* C13: when the call of the rating model raises, rate_stock returns the error
\* verdict, which is not the parsing-fallback verdict: HOLD, confidence 0.0, a
\* reasoning that holds the error's text, and factor lists saying that the
\* analysis could not be completed.
C13_ModelCallErrorVerdict ==
  (rpc = "returned" /\ script.prompt.ok /\ ~script.call.ok) =>
     /\ ~rout.raised
     /\ rout.verdict.rating = "HOLD"
     /\ rout.verdict.confidence = 0
     /\ rout.verdict.reasoning =
          JFmt("Analysis failed with error: {}", script.call.exc.msg, <<>>)
     /\ rout.verdict.key_factors = JList("Analysis could not be completed")
     /\ rout.verdict.risk_factors = JList("Unable to assess risks due to analysis failure")
     /\ \A r \in Replies : rout.verdict # CreateFallbackRating(r)
C13_Witness ==
  /\ rpc = "returned"
  /\ script.call = Raise("RuntimeError", "rate limit")
  /\ rout.verdict.reasoning.m = "rate limit"
  /\ rout.verdict.confidence = 0
  /\ response_text = <<>>

\* C14: the confidence of every verdict rate_stock returns lies in [0, 1]
\* (0..100 hundredths), whatever confidence the reply holds.
C14_ConfidenceInRange ==
  (rpc = "returned" /\ ~rout.raised) =>
     rout.verdict.confidence >= 0 /\ rout.verdict.confidence <= 100

\* ----------------------------------- pipelines/pipelines.py, the exports
\* A record with the two fields analyze_stock reads from the clock.
WithTimes(r, date, secs) ==
  [stock_symbol |-> r.stock_symbol, financial_data_html |-> r.financial_data_html,
   company_sentiment |-> r.company_sentiment, sector_sentiment |-> r.sector_sentiment,
   rating_result |-> r.rating_result, success |-> r.success,
   error_message |-> r.error_message,
   analysis_date |-> date, processing_time_seconds |-> secs]

\* A reply object whose key_factors is null.
NullFactorsObj == [GoodObj EXCEPT !.key_factors = JNull]

\* The records the exports and the report are checked on: two failed ones, and
\* successful ones with three different ratings and with null key factors.
ExportRecords ==
  {WithTimes(OwnRecord("aaa", Script(Raise("ValueError", "API Error"), Ok, Ok, Ok, <<>>)),
             "2024-01-15T10:30:00", 40),
   WithTimes(OwnRecord("BBB", Script(Ok, Raise("KeyError", "results"), Ok, Ok, <<>>)),
             "2024-01-15T10:30:01", 90),
   WithTimes(OwnRecord("aaa", BareScript(GoodObj)), "2024-01-15T10:30:02", 150),
   WithTimes(OwnRecord("BBB", BareScript(OtherObj)), "2024-01-15T10:30:03", 150),
   WithTimes(OwnRecord("BBB", BareScript(Obj(JStr("Strong Buy"), JNum(100)))),
             "2024-01-15T10:30:04", 210),
   WithTimes(OwnRecord("BBB", BareScript(NullFactorsObj)), "2024-01-15T10:30:06", 130)}

\* Longest list of records handed to export_batch_results and
\* create_analysis_report.
MaxRecords == 3
RECURSIVE RecordLists(_)
RecordLists(n) ==
  IF n = 0 THEN {<<>>}
  ELSE RecordLists(n - 1) \cup
       {Append(l, x) : l \in {l \in RecordLists(n - 1) : Len(l) = n - 1},
                       x \in ExportRecords}

\* The file system.
Exists(fs, name) == \E f \in fs : f.name = name
Content(fs, name) == (CHOOSE f \in fs : f.name = name).content
\* open(name, 'w') ... write: the file holds content, whatever it held.
WriteFile(fs, name, content) ==
  {f \in fs : f.name # name} \cup {[name |-> name, content |-> content]}
\* What happens to one file operation: it works, open() raises, or the first
\* write raises once the file is open.
IOOutcomes == {"ok", "open", "write"}
Done(fs) == [raised |-> FALSE, exc |-> NoExc, files |-> fs]
Failed(e, fs) == [raised |-> TRUE, exc |-> e, files |-> fs]

\* f"{x:spec}"
Format(spec, x) == <<spec, x>>
\* len(v)
PyLen(v) ==
  IF v.t \in {"list", "str"} THEN [ok |-> TRUE, n |-> <<"len", v.s>>, exc |-> NoExc]
  ELSE [ok |-> FALSE, n |-> <<>>,
        exc |-> Exc("TypeError", "object of type 'NoneType' has no len()")]

Formats == {"txt", "json", "csv"}

CsvHeader ==
  <<"Stock Symbol", "Analysis Date", "Rating", "Confidence",
    "Processing Time (s)", "Success", "Key Factors Count", "Risk Factors Count">>
\* The data row of _export_to_csv and _append_to_csv.
CsvRow(result) ==
  LET k == PyLen(result.rating_result.key_factors)
      r == PyLen(result.rating_result.risk_factors)
  IN IF ~k.ok THEN [ok |-> FALSE, row |-> <<>>, exc |-> k.exc]
     ELSE IF ~r.ok THEN [ok |-> FALSE, row |-> <<>>, exc |-> r.exc]
     ELSE [ok |-> TRUE, exc |-> NoExc,
           row |-> <<result.stock_symbol, result.analysis_date,
                     Rating[result.rating_result.rating],
                     Format(".3f", result.rating_result.confidence),
                     Format(".2f", result.processing_time_seconds),
                     result.success, k.n, r.n>>]

\* _export_to_csv: the file is opened for writing, the header is written, then
\* the row is built and written.
ExportToCsv(result, filename, fs, io) ==
  IF io = "open" THEN Failed(Exc("OSError", "open"), fs)
  ELSE IF io = "write" THEN Failed(Exc("OSError", "write"), WriteFile(fs, filename, <<>>))
  ELSE IF ~CsvRow(result).ok
  THEN Failed(CsvRow(result).exc, WriteFile(fs, filename, <<CsvHeader>>))
  ELSE Done(WriteFile(fs, filename, <<CsvHeader, CsvRow(result).row>>))

\* _append_to_csv: the file is opened for appending (and created when it does
\* not exist), then the row is built and written.
AppendToCsv(result, filename, fs, io) ==
  LET old == IF Exists(fs, filename) THEN Content(fs, filename) ELSE <<>>
  IN IF io = "open" THEN Failed(Exc("OSError", "open"), fs)
     ELSE IF io = "write" THEN Failed(Exc("OSError", "write"), WriteFile(fs, filename, old))
     ELSE IF ~CsvRow(result).ok
     THEN Failed(CsvRow(result).exc, WriteFile(fs, filename, old))
     ELSE Done(WriteFile(fs, filename, Append(old, CsvRow(result).row)))

\* for x in v: whether v can be iterated.
Iterable(v) == v.t \in {"list", "str"}
\* StockRater.get_rating_summary
GetRatingSummary(v) ==
  IF ~Iterable(v.key_factors) \/ ~Iterable(v.risk_factors)
  THEN [ok |-> FALSE, text |-> <<>>,
        exc |-> Exc("TypeError", "'NoneType' object is not iterable")]
  ELSE [ok |-> TRUE, exc |-> NoExc,
        text |-> [title |-> "STOCK RATING SUMMARY",
                  rating |-> Rating[v.rating],
                  confidence |-> Format(".1%", v.confidence),
                  reasoning |-> v.reasoning,
                  key_factors |-> <<"bullets", v.key_factors>>,
                  risk_factors |-> <<"bullets", v.risk_factors>>,
                  recommendation |-> v.recommendation_summary]]

\* get_analysis_summary
GetAnalysisSummary(result) ==
  IF ~result.success
  THEN [ok |-> TRUE, exc |-> NoExc,
        text |-> [title |-> "STOCK ANALYSIS FAILED",
                  stock |-> result.stock_symbol,
                  error |-> result.error_message,
                  processing_time |-> Format(".2f", result.processing_time_seconds)]]
  ELSE IF ~GetRatingSummary(result.rating_result).ok
  THEN [ok |-> FALSE, text |-> <<>>, exc |-> GetRatingSummary(result.rating_result).exc]
  ELSE [ok |-> TRUE, exc |-> NoExc,
        text |-> [title |-> "COMPLETE STOCK ANALYSIS",
                  stock |-> result.stock_symbol,
                  analysis_date |-> result.analysis_date,
                  processing_time |-> Format(".2f", result.processing_time_seconds),
                  rating_summary |-> GetRatingSummary(result.rating_result).text,
                  company_sentiment |-> result.company_sentiment,
                  sector_sentiment |-> result.sector_sentiment,
                  financial_data |-> result.financial_data_html]]

\* _export_to_txt: the summary is built, then written.
ExportToTxt(result, filename, fs, io) ==
  IF ~GetAnalysisSummary(result).ok THEN Failed(GetAnalysisSummary(result).exc, fs)
  ELSE IF io = "open" THEN Failed(Exc("OSError", "open"), fs)
  ELSE IF io = "write" THEN Failed(Exc("OSError", "write"), WriteFile(fs, filename, <<>>))
  ELSE Done(WriteFile(fs, filename, GetAnalysisSummary(result).text))

\* Mutant: the payload's analysis_date is read from the clock at export time.
MutExportDataDatedNow(result, t) ==
  [stock_symbol |-> result.stock_symbol,
   analysis_date |-> Format("isoformat", t),
   processing_time_seconds |-> result.processing_time_seconds,
   success |-> result.success,
   error_message |-> result.error_message,
   rating |-> [value |-> Rating[result.rating_result.rating],
               confidence |-> result.rating_result.confidence,
               reasoning |-> result.rating_result.reasoning,
               key_factors |-> result.rating_result.key_factors,
               risk_factors |-> result.rating_result.risk_factors,
               recommendation_summary |-> result.rating_result.recommendation_summary],
   sentiment |-> [company_sentiment |-> result.company_sentiment,
                  sector_sentiment |-> result.sector_sentiment],
   financial_data_html |-> result.financial_data_html,
   export_timestamp |-> Format("isoformat", t)]
\* _export_to_json: export_data, with the clock read at t.
ExportData(result, t) ==
  [stock_symbol |-> result.stock_symbol,
   analysis_date |-> result.analysis_date,
   processing_time_seconds |-> result.processing_time_seconds,
   success |-> result.success,
   error_message |-> result.error_message,
   rating |-> [value |-> Rating[result.rating_result.rating],
               confidence |-> result.rating_result.confidence,
               reasoning |-> result.rating_result.reasoning,
               key_factors |-> result.rating_result.key_factors,
               risk_factors |-> result.rating_result.risk_factors,
               recommendation_summary |-> result.rating_result.recommendation_summary],
   sentiment |-> [company_sentiment |-> result.company_sentiment,
                  sector_sentiment |-> result.sector_sentiment],
   financial_data_html |-> result.financial_data_html,
   export_timestamp |-> Format("isoformat", t)]

\* _export_to_json: the payload is built, then dumped to the file.
ExportToJson(result, filename, fs, io, t) ==
  IF io = "open" THEN Failed(Exc("OSError", "open"), fs)
  ELSE IF io = "write" THEN Failed(Exc("OSError", "write"), WriteFile(fs, filename, <<>>))
  ELSE Done(WriteFile(fs, filename, ExportData(result, t)))

\* export_analysis_to_file: the exporter of the format; an exception is logged
\* and raised again.
ExportAnalysisToFile(result, filename, format, fs, io, t) ==
  IF format = "json" THEN ExportToJson(result, filename, fs, io, t)
  ELSE IF format = "csv" THEN ExportToCsv(result, filename, fs, io)
  ELSE ExportToTxt(result, filename, fs, io)

\* os.path.join(output_dir, f"batch_{timestamp}.csv")
BatchCsvName(output_dir, t) == <<output_dir, "batch", Format("%Y%m%d_%H%M%S", t), "csv">>
\* os.path.join(output_dir, f"{result.stock_symbol}_{timestamp}.{format}")
RecordFileName(output_dir, symbol, t, format) ==
  <<output_dir, symbol, Format("%Y%m%d_%H%M%S", t), format>>

\* Mutant: the loop has no handler of its own and ends at the first record
\* whose export raises.
RECURSIVE MutExportLoopEndsAtFailure(_, _, _, _, _, _)
MutExportLoopEndsAtFailure(rs, output_dir, format, t, ios, st) ==
  IF st.i > Len(rs) THEN st
  ELSE LET result == rs[st.i]
           r == IF format = "csv"
                THEN IF st.i = 1
                     THEN ExportToCsv(result, BatchCsvName(output_dir, t), st.files, ios[st.i])
                     ELSE AppendToCsv(result, BatchCsvName(output_dir, t), st.files, ios[st.i])
                ELSE ExportAnalysisToFile(result,
                       RecordFileName(output_dir, result.stock_symbol, t, format),
                       format, st.files, ios[st.i], t)
           next == [i |-> st.i + 1, files |-> r.files,
                    exported |-> Append(st.exported, ~r.raised)]
       IN IF r.raised THEN next
          ELSE MutExportLoopEndsAtFailure(rs, output_dir, format, t, ios, next)
\* export_batch_results, the loop from record st.i on: each record's export is
\* tried on its own, and its exception is counted and logged.
RECURSIVE ExportLoop(_, _, _, _, _, _)
ExportLoop(rs, output_dir, format, t, ios, st) ==
  IF st.i > Len(rs) THEN st
  ELSE LET result == rs[st.i]
           r == IF format = "csv"
                THEN IF st.i = 1
                     THEN ExportToCsv(result, BatchCsvName(output_dir, t), st.files, ios[st.i])
                     ELSE AppendToCsv(result, BatchCsvName(output_dir, t), st.files, ios[st.i])
                ELSE ExportAnalysisToFile(result,
                       RecordFileName(output_dir, result.stock_symbol, t, format),
                       format, st.files, ios[st.i], t)
       IN ExportLoop(rs, output_dir, format, t, ios,
                     [i |-> st.i + 1, files |-> r.files,
                      exported |-> Append(st.exported, ~r.raised)])

\* export_batch_results: os.makedirs (mk: whether it works), then the loop;
\* exported[k] tells whether the export of record k succeeded.
ExportBatchResults(rs, output_dir, format, fs, mk, ios, t) ==
  IF ~mk
  THEN [raised |-> TRUE, exc |-> Exc("OSError", "makedirs"), files |-> fs, exported |-> <<>>]
  ELSE LET st == ExportLoop(rs, output_dir, format, t, ios,
                            [i |-> 1, files |-> fs, exported |-> <<>>])
       IN [raised |-> FALSE, exc |-> NoExc, files |-> st.files, exported |-> st.exported]

\* A call of export_batch_results on the pipeline.
ExportBatch ==
  /\ cpc = "direct"
  /\ log = <<>>
  /\ \E format \in Formats, mk \in BOOLEAN, ios \in [1..Len(results) -> IOOutcomes] :
       LET r == ExportBatchResults(results, "analysis_results", format, files, mk, ios, now)
       IN /\ mk \/ \A k \in 1..Len(results) : ios[k] = "ok"
          /\ files' = r.files
          /\ log' = Append(log, [op |-> "export_batch_results", format |-> format,
                                 ios |-> ios, raised |-> r.raised, exc |-> r.exc,
                                 exported |-> r.exported])
  /\ UNCHANGED <<batchVars, runVars, script, raterVars, now, cmd, cpc, exit_code>>

\* ------------------------ pipelines/pipelines.py, create_analysis_report
\* Mutant: every record counts as successful.
MutIsSuccessAlways(r) == TRUE
\* r.success
IsSuccess(r) == r.success
IsFailure(r) == ~IsSuccess(r)

RECURSIVE SumSeq(_)
SumSeq(s) == IF s = <<>> THEN 0 ELSE Head(s) + SumSeq(Tail(s))
\* sum(r.rating_result.confidence for r in rs)
SumConfidence(rs) == SumSeq([k \in 1..Len(rs) |-> rs[k].rating_result.confidence])
\* sum(r.processing_time_seconds for r in rs)
SumProcessingTime(rs) == SumSeq([k \in 1..Len(rs) |-> rs[k].processing_time_seconds])

\* a / b rounded to the nearest integer, as the format specifications .1f and
\* .1% round to one decimal (no quotient met here lies halfway).
RoundDiv(a, b) == (2 * a + b) \div (2 * b)

\* rating_counts[rating] = rating_counts.get(rating, 0) + 1, over rs from
\* record k on: the ratings in the order they are first met, with their counts.
RECURSIVE RatingCounts(_, _, _)
RatingCounts(rs, k, counts) ==
  IF k > Len(rs) THEN counts
  ELSE LET rating == Rating[rs[k].rating_result.rating]
           at == {j \in 1..Len(counts) : counts[j].rating = rating}
       IN RatingCounts(rs, k + 1,
            IF at = {} THEN Append(counts, [rating |-> rating, count |-> 1])
            ELSE [counts EXCEPT ![Min(at)].count = @ + 1])

\* The lines of the rating distribution: the percentage as computed
\* (count * 100 / of), and as printed with one decimal, in tenths of a percent.
Distribution(counts, successful) ==
  [j \in 1..Len(counts) |->
     [rating |-> counts[j].rating, count |-> counts[j].count,
      percentage |-> [num |-> counts[j].count * 100, den |-> successful],
      printed |-> RoundDiv(counts[j].count * 1000, successful)]]

\* The detailed entry of one record.
ReportEntry(result) ==
  LET v == result.rating_result
  IN IF IsFailure(result)
     THEN [ok |-> TRUE, exc |-> NoExc,
           entry |-> [symbol |-> Upper(result.stock_symbol),
                      rating |-> Rating[v.rating],
                      confidence |-> Format(".1%", v.confidence),
                      processing_time |-> Format(".2f", result.processing_time_seconds),
                      success |-> result.success,
                      error |-> result.error_message]]
     ELSE IF ~Iterable(v.key_factors) \/ ~Iterable(v.risk_factors)
     THEN [ok |-> FALSE, entry |-> <<>>,
           exc |-> Exc("TypeError", "'NoneType' object is not subscriptable")]
     ELSE [ok |-> TRUE, exc |-> NoExc,
           entry |-> [symbol |-> Upper(result.stock_symbol),
                      rating |-> Rating[v.rating],
                      confidence |-> Format(".1%", v.confidence),
                      processing_time |-> Format(".2f", result.processing_time_seconds),
                      success |-> result.success,
                      key_factors |-> <<"join", "[:3]", v.key_factors>>,
                      risk_factors |-> <<"join", "[:3]", v.risk_factors>>]]

\* Mutant: only the successful records get a detailed entry.
MutEntriesOfSuccessful(rs) ==
  [k \in 1..Len(SelectSeq(rs, IsSuccess)) |-> ReportEntry(SelectSeq(rs, IsSuccess)[k]).entry]
\* for result in results: report += ...
ReportEntries(rs) == [k \in 1..Len(rs) |-> ReportEntry(rs[k]).entry]

\* create_analysis_report(results, output_file): output_file is None or a file
\* name, io what happens to its write.
CreateAnalysisReport(rs, output_file, io, fs) ==
  LET successful_results == SelectSeq(rs, IsSuccess)
      failed_results == SelectSeq(rs, IsFailure)
      total_processing_time == SumProcessingTime(rs)
      rating_counts == RatingCounts(successful_results, 1, <<>>)
      report ==
        [total |-> Len(rs),
         successful |-> Len(successful_results),
         failed |-> Len(failed_results),
         total_processing_time |-> Format(".2f", total_processing_time),
         average_processing_time |->
           Format(".2f", [num |-> total_processing_time, den |-> Len(rs)]),
         distribution |-> Distribution(rating_counts, Len(successful_results)),
         average_confidence |->
           IF successful_results # <<>>
           THEN RoundDiv(10 * SumConfidence(successful_results), Len(successful_results))
           ELSE 0,
         entries |-> ReportEntries(rs)]
      raise(e) == [raised |-> TRUE, exc |-> e, report |-> <<>>, files |-> fs]
  IN IF Len(rs) = 0 THEN raise(Exc("ZeroDivisionError", "division by zero"))
     ELSE IF \E k \in 1..Len(rs) : ~ReportEntry(rs[k]).ok
     THEN raise(ReportEntry(rs[Min({k \in 1..Len(rs) : ~ReportEntry(rs[k]).ok})]).exc)
     ELSE IF output_file = None
     THEN [raised |-> FALSE, exc |-> NoExc, report |-> report, files |-> fs]
     ELSE IF io = "open" THEN raise(Exc("OSError", "open"))
     ELSE IF io = "write"
     THEN [raised |-> TRUE, exc |-> Exc("OSError", "write"), report |-> <<>>,
           files |-> WriteFile(fs, output_file, <<>>)]
     ELSE [raised |-> FALSE, exc |-> NoExc, report |-> report,
           files |-> WriteFile(fs, output_file, report)]

\* A call of create_analysis_report on the pipeline.
CreateReport ==
  /\ cpc = "direct"
  /\ log = <<>>
  /\ \E output_file \in {None, "report.txt"}, io \in IOOutcomes :
       LET r == CreateAnalysisReport(results, output_file, io, files)
       IN /\ output_file = None => io = "ok"
          /\ files' = r.files
          /\ log' = Append(log, [op |-> "create_analysis_report",
                                 output_file |-> output_file, io |-> io,
                                 raised |-> r.raised, exc |-> r.exc,
                                 report |-> r.report])
  /\ UNCHANGED <<batchVars, runVars, script, raterVars, now, cmd, cpc, exit_code>>

\* export_batch_results and create_analysis_report called on a list of records.
InitOutputsOn ==
  /\ stock_symbols = <<>>
  /\ i = 0
  /\ results \in RecordLists(MaxRecords)
  /\ scripts = <<>>
  /\ pc = "direct"
  /\ InitRun
  /\ script = NoScript
  /\ rpc = "idle"
  /\ rin = NoCall
  /\ InitRater
  /\ files = {}
  /\ now = 0
  /\ log = <<>>
  /\ cmd = <<>>
  /\ cpc = "direct"
  /\ exit_code = 0

NextOutputs ==
  \/ ExportBatch
  \/ CreateReport

SpecOutputs == InitOutputsOn /\ [][NextOutputs]_vars

\* The rows of the records whose export succeeded, in record order.
RECURSIVE ExportedRows(_, _, _)
ExportedRows(rs, exported, k) ==
  IF k > Len(rs) THEN <<>>
  ELSE (IF exported[k] THEN <<CsvRow(rs[k]).row>> ELSE <<>>)
       \o ExportedRows(rs, exported, k + 1)

\* export_batch_results in csv format has returned.
CsvBatchDone ==
  /\ log # <<>>
  /\ log[1].op = "export_batch_results"
  /\ log[1].format = "csv"
  /\ ~log[1].raised

\* C15: after a batch export in csv format, whatever exports failed, the one
\* batch file holds the header once, as its first line, and then one row for
\* each record whose export succeeded, in record order.
C15_CsvHeaderOnce ==
  (CsvBatchDone /\ \E k \in 1..Len(results) : log[1].exported[k]) =>
     /\ Exists(files, BatchCsvName("analysis_results", now))
     /\ Content(files, BatchCsvName("analysis_results", now)) =
          <<CsvHeader>> \o ExportedRows(results, log[1].exported, 1)

\* Most calls of export_analysis_to_file made on one pipeline.
MaxExports == 2

\* A call of export_analysis_to_file on record k; the clock has moved on by d
\* since the call before.
ExportOne ==
  /\ cpc = "direct"
  /\ Len(log) < MaxExports
  /\ \E k \in 1..Len(results), format \in Formats, io \in IOOutcomes, d \in {0, 1} :
       LET filename == <<"analysis", results[k].stock_symbol, format>>
           r == ExportAnalysisToFile(results[k], filename, format, files, io, now + d)
       IN /\ now' = now + d
          /\ files' = r.files
          /\ log' = Append(log, [op |-> "export_analysis_to_file", k |-> k,
                                 record |-> results[k], format |-> format, io |-> io,
                                 raised |-> r.raised, exc |-> r.exc,
                                 written |-> IF r.raised THEN <<>>
                                             ELSE Content(r.files, filename)])
  /\ UNCHANGED <<batchVars, runVars, script, raterVars, cmd, cpc, exit_code>>

\* export_analysis_to_file called on the record of one analysis.
InitExport ==
  /\ stock_symbols = <<>>
  /\ i = 0
  /\ results \in {<<r>> : r \in ExportRecords}
  /\ scripts = <<>>
  /\ pc = "direct"
  /\ InitRun
  /\ script = NoScript
  /\ rpc = "idle"
  /\ rin = NoCall
  /\ InitRater
  /\ files = {}
  /\ now = 0
  /\ log = <<>>
  /\ cmd = <<>>
  /\ cpc = "direct"
  /\ exit_code = 0

SpecExport == InitExport /\ [][ExportOne]_vars

\* Export a of the log wrote a payload in the given format.
Wrote(a, format) ==
  /\ log[a].op = "export_analysis_to_file"
  /\ log[a].format = format
  /\ ~log[a].raised

\* C16: two json exports of the same record write payloads that are equal in
\* every field but export_timestamp, and no export changes the record.
C16_JsonExportIdempotent ==
  /\ \A a \in 1..Len(log) : log[a].record = results[log[a].k]
  /\ \A a \in 1..Len(log) : \A b \in 1..Len(log) :
       (Wrote(a, "json") /\ Wrote(b, "json") /\ log[a].k = log[b].k) =>
          /\ DOMAIN log[a].written = DOMAIN log[b].written
          /\ \A f \in DOMAIN log[a].written \ {"export_timestamp"} :
               log[a].written[f] = log[b].written[f]
C16_Witness ==
  /\ Len(log) = 2
  /\ Wrote(1, "json")
  /\ Wrote(2, "json")
  /\ log[1].written.export_timestamp # log[2].written.export_timestamp
  /\ log[1].written.stock_symbol = log[2].written.stock_symbol
  /\ log[1].written.rating.value = "Buy"

\* The text holds the rendered fundamentals, both sentiment texts and the
\* verdict with its factor lists.
EmbedsAnalysis(text, r) ==
  /\ {"financial_data", "company_sentiment", "sector_sentiment", "rating_summary"}
       \subseteq DOMAIN text
  /\ text.financial_data = r.financial_data_html
  /\ text.company_sentiment = r.company_sentiment
  /\ text.sector_sentiment = r.sector_sentiment
  /\ text.rating_summary.rating = Rating[r.rating_result.rating]
  /\ text.rating_summary.key_factors = <<"bullets", r.rating_result.key_factors>>
  /\ text.rating_summary.risk_factors = <<"bullets", r.rating_result.risk_factors>>

\* C19: the text export of any record, successful or failed, writes a report
\* that embeds the rendered fundamentals, both sentiment texts and the verdict
\* with its factor lists.
C19_TextExportEmbedsAll ==
  \A a \in 1..Len(log) :
    (log[a].op = "export_analysis_to_file" /\ log[a].format = "txt" /\ log[a].io = "ok") =>
       /\ ~log[a].raised
       /\ EmbedsAnalysis(log[a].written, log[a].record)

\* create_analysis_report has returned a report.
ReportDone ==
  /\ log # <<>>
  /\ log[1].op = "create_analysis_report"
  /\ ~log[1].raised

\* The confidences of the successful records and 0 for the others; the number
\* of successful records with rating value v.
ConfidenceIfSuccessful ==
  [k \in 1..Len(results) |->
     IF results[k].success THEN results[k].rating_result.confidence ELSE 0]
SuccessfulWith(v) ==
  Cardinality({k \in 1..Len(results) :
                 results[k].success /\ Rating[results[k].rating_result.rating] = v})
SuccessfulCount == Cardinality({k \in 1..Len(results) : results[k].success})
Abs(x) == IF x < 0 THEN -x ELSE x

\* C17: in the report, failed records count neither in the mean confidence nor
\* in the rating histogram: the mean is that of the successful records, each
\* successful record is counted once under its own rating, the counts sum to
\* the number of successful records, and the percentages (of the successful
\* records) sum to 100% when a record succeeded; printed with one decimal,
\* they sum to 100% up to that rounding.
C17_ReportCountsSuccessfulOnly ==
  ReportDone =>
    LET rep == log[1].report
        dist == rep.distribution
    IN /\ rep.successful = SuccessfulCount
       /\ rep.failed = Len(results) - SuccessfulCount
       /\ \A j \in 1..Len(dist) :
            /\ dist[j].count = SuccessfulWith(dist[j].rating)
            /\ dist[j].count > 0
            /\ \A h \in 1..Len(dist) : dist[h].rating = dist[j].rating => h = j
       /\ \A m \in RatingMembers :
            SuccessfulWith(Rating[m]) > 0 => \E j \in 1..Len(dist) : dist[j].rating = Rating[m]
       /\ SumSeq([j \in 1..Len(dist) |-> dist[j].count]) = SuccessfulCount
       /\ SuccessfulCount > 0 =>
            /\ \A j \in 1..Len(dist) : dist[j].percentage.den = SuccessfulCount
            /\ SumSeq([j \in 1..Len(dist) |-> dist[j].percentage.num]) = 100 * SuccessfulCount
            /\ 2 * Abs(SumSeq([j \in 1..Len(dist) |-> dist[j].printed]) - 1000) <= Len(dist)
            /\ rep.average_confidence =
                 RoundDiv(10 * SumSeq(ConfidenceIfSuccessful), SuccessfulCount)
       /\ SuccessfulCount = 0 => rep.average_confidence = 0 /\ dist = <<>>
C17_Witness ==
  /\ ReportDone
  /\ Len(results) = 3
  /\ log[1].report.failed = 1
  /\ log[1].report.successful = 2
  /\ log[1].report.average_confidence = 900
  /\ Len(log[1].report.distribution) = 2

\* C18: the report holds one detailed entry for every record, in input order,
\* successful or failed; a failed record's entry carries its error message and
\* a successful record's entry its key and risk factors.
C18_ReportListsEveryRecord ==
  ReportDone =>
    LET entries == log[1].report.entries
    IN /\ Len(entries) = Len(results)
       /\ \A k \in 1..Len(results) :
            /\ entries[k].symbol = Upper(results[k].stock_symbol)
            /\ entries[k].success = results[k].success
            /\ entries[k].rating = Rating[results[k].rating_result.rating]
            /\ IF results[k].success
               THEN /\ "error" \notin DOMAIN entries[k]
                    /\ "key_factors" \in DOMAIN entries[k]
                    /\ "risk_factors" \in DOMAIN entries[k]
                    /\ entries[k].key_factors =
                         <<"join", "[:3]", results[k].rating_result.key_factors>>
                    /\ entries[k].risk_factors =
                         <<"join", "[:3]", results[k].rating_result.risk_factors>>
               ELSE /\ "error" \in DOMAIN entries[k]
                    /\ entries[k].error = results[k].error_message
                    /\ "key_factors" \notin DOMAIN entries[k]
C18_Witness ==
  /\ ReportDone
  /\ Len(results) = 3
  /\ ~results[1].success
  /\ results[2].success
  /\ ~results[3].success
  /\ log[1].report.entries[1].error = "API Error"
  /\ log[1].report.entries[2].rating = "Sell"
  /\ log[1].report.entries[3].error = "results"

\* ------------------------------------------------- main.py, batch command
\* The options of the batch command.
BatchOptions ==
  [no_export : BOOLEAN, summary_only : BOOLEAN, format : Formats, report : BOOLEAN]
\* What the collaborators do for one subject of a batch command.
CmdScripts ==
  {Script(Raise("ValueError", "API Error"), Ok, Ok, Ok, <<>>),
   BareScript(GoodObj), BareScript(NullFactorsObj)}

\* pipeline = StockAnalysisPipeline(): the constructor logs and raises again
\* what a component's constructor raises.
CmdInitPipeline ==
  /\ cpc = "init"
  /\ \E ok \in BOOLEAN :
       IF ok THEN cpc' = "analyze" /\ exc' = exc
       ELSE cpc' = "except" /\ exc' = Exc("ValueError", "OPENAI_API_KEY is not set")
  /\ UNCHANGED <<batchVars, pc, stock_symbol, financial_data_html, company_sentiment,
                 sector_sentiment, rating_result, ret, calls, script, raterVars,
                 files, now, log, cmd, exit_code>>

\* results = pipeline.batch_analyze_stocks(symbols), and the summary echoed.
CmdAnalyze ==
  /\ cpc = "analyze"
  /\ \E scs \in [1..Len(stock_symbols) -> CmdScripts] :
       results' = [k \in 1..Len(stock_symbols) |->
                     WithTimes(OwnRecord(stock_symbols[k], scs[k]),
                               "2024-01-15T10:30:00", 150)]
  /\ cpc' = "export"
  /\ UNCHANGED <<stock_symbols, i, scripts, runVars, script, raterVars, files, now,
                 log, cmd, exit_code>>

\* if not no_export: pipeline.export_batch_results(results, export_dir, format)
CmdExport ==
  /\ cpc = "export"
  /\ IF cmd.no_export
     THEN /\ cpc' = "report"
          /\ UNCHANGED <<files, exc>>
     ELSE \E mk \in BOOLEAN, io \in IOOutcomes :
            LET r == ExportBatchResults(results, "analysis_results", cmd.format, files,
                                        mk, [k \in 1..Len(results) |-> io], now)
            IN /\ mk \/ io = "ok"
               /\ files' = r.files
               /\ IF r.raised THEN cpc' = "except" /\ exc' = r.exc
                  ELSE cpc' = "report" /\ exc' = exc
  /\ UNCHANGED <<batchVars, pc, stock_symbol, financial_data_html, company_sentiment,
                 sector_sentiment, rating_result, ret, calls, script, raterVars,
                 now, log, cmd, exit_code>>

\* if report: pipeline.create_analysis_report(results, report_filename)
CmdReport ==
  /\ cpc = "report"
  /\ IF ~cmd.report
     THEN /\ cpc' = "details"
          /\ UNCHANGED <<files, exc>>
     ELSE \E io \in IOOutcomes :
            LET r == CreateAnalysisReport(results,
                       <<"analysis_report", Format("%Y%m%d_%H%M%S", now), "txt">>, io, files)
            IN /\ files' = r.files
               /\ IF r.raised THEN cpc' = "except" /\ exc' = r.exc
                  ELSE cpc' = "details" /\ exc' = exc
  /\ UNCHANGED <<batchVars, pc, stock_symbol, financial_data_html, company_sentiment,
                 sector_sentiment, rating_result, ret, calls, script, raterVars,
                 now, log, cmd, exit_code>>

\* if not summary_only: the summary of each successful record is echoed; then
\* the command returns and the process exits with code 0.
CmdDetails ==
  /\ cpc = "details"
  /\ LET bad == {k \in 1..Len(results) :
                   IsSuccess(results[k]) /\ ~GetAnalysisSummary(results[k]).ok}
     IN IF ~cmd.summary_only /\ bad # {}
        THEN /\ cpc' = "except"
             /\ exc' = GetAnalysisSummary(results[Min(bad)]).exc
             /\ exit_code' = exit_code
        ELSE /\ cpc' = "exited"
             /\ exit_code' = 0
             /\ exc' = exc
  /\ UNCHANGED <<batchVars, pc, stock_symbol, financial_data_html, company_sentiment,
                 sector_sentiment, rating_result, ret, calls, script, raterVars,
                 files, now, log, cmd>>

\* except Exception as e: click.echo(...); sys.exit(1)
CmdExcept ==
  /\ cpc = "except"
  /\ IF Catches("Exception", exc.type)
     THEN exit_code' = 1
     ELSE exit_code' = exit_code
  /\ cpc' = "exited"
  /\ UNCHANGED <<batchVars, runVars, script, raterVars, files, now, log, cmd>>

\* python main.py batch SYMBOL... [options]: at least one symbol is required.
InitCmd ==
  /\ stock_symbols \in SymbolLists(MaxBatch) \ {<<>>}
  /\ i = 0
  /\ results = <<>>
  /\ scripts = <<>>
  /\ pc = "direct"
  /\ InitRun
  /\ script = NoScript
  /\ rpc = "idle"
  /\ rin = NoCall
  /\ InitRater
  /\ files = {}
  /\ now = 0
  /\ log = <<>>
  /\ cmd \in BatchOptions
  /\ cpc = "init"
  /\ exit_code = 0

NextCmd ==
  \/ CmdInitPipeline
  \/ CmdAnalyze
  \/ CmdExport
  \/ CmdReport
  \/ CmdDetails
  \/ CmdExcept

SpecCmd == InitCmd /\ [][NextCmd]_vars

\* C20: a batch command always exits with code zero, whatever happens during
\* pipeline initialisation, batch analysis, batch export or report generation.
C20_BatchExitsZero == cpc = "exited" => exit_code = 0

\* ------------------------------------------------ main.py, analyze command
\* The options of the analyze command; output is None when -o is not given.
AnalyzeOptions == [no_export : BOOLEAN, output : {None, "out.txt"}, format : Formats]
\* What the collaborators do for the subject of an analyze command.
AnalyzeCmdScripts ==
  CmdScripts \cup {Script(Ok, Raise("KeyError", "results"), Ok, Ok, <<>>),
                   Script(Ok, Ok, Ok, Raise("RuntimeError", "API Error"), <<>>)}

\* pipeline = StockAnalysisPipeline(): a failing constructor raises.
AnInitPipeline ==
  /\ cpc = "a_init"
  /\ \E ok \in BOOLEAN :
       IF ok THEN cpc' = "a_analyze" /\ exc' = exc
       ELSE cpc' = "a_except" /\ exc' = Exc("ValueError", "OPENAI_API_KEY is not set")
  /\ UNCHANGED <<batchVars, pc, stock_symbol, financial_data_html, company_sentiment,
                 sector_sentiment, rating_result, ret, calls, script, raterVars,
                 files, now, log, cmd, exit_code>>

\* result = pipeline.analyze_stock(stock_symbol); if result.success: ... else: ...
AnAnalyze ==
  /\ cpc = "a_analyze"
  /\ \E sc \in AnalyzeCmdScripts :
       LET result == WithTimes(OwnRecord(stock_symbols[1], sc), "2024-01-15T10:30:00", 150)
       IN /\ results' = <<result>>
          /\ cpc' = IF result.success THEN "a_show" ELSE "a_failed"
  /\ UNCHANGED <<stock_symbols, i, scripts, runVars, script, raterVars, files, now,
                 log, cmd, exit_code>>

\* The success branch up to the summary: the rating, confidence and processing
\* time are echoed, then pipeline.get_analysis_summary(result).
AnShow ==
  /\ cpc = "a_show"
  /\ LET result == results[1]
         s == GetAnalysisSummary(result)
         head == <<[op |-> "echo", text |-> <<"Rating", Rating[result.rating_result.rating]>>]>>
     IN IF s.ok
        THEN /\ log' = log \o head \o <<[op |-> "echo", text |-> s.text]>>
             /\ cpc' = "a_export"
             /\ exc' = exc
        ELSE /\ log' = log \o head
             /\ cpc' = "a_except"
             /\ exc' = s.exc
  /\ UNCHANGED <<batchVars, pc, stock_symbol, financial_data_html, company_sentiment,
                 sector_sentiment, rating_result, ret, calls, script, raterVars,
                 files, now, cmd, exit_code>>

\* if not no_export: pipeline.export_analysis_to_file(result, filename, format),
\* to the --output path or to analysis_{symbol}_{timestamp}.{format}; then the
\* command returns and the process exits with code 0.
AnExport ==
  /\ cpc = "a_export"
  /\ IF cmd.no_export
     THEN /\ cpc' = "exited"
          /\ exit_code' = 0
          /\ UNCHANGED <<files, log, exc>>
     ELSE \E io \in IOOutcomes :
            LET result == results[1]
                filename == IF cmd.output # None THEN <<cmd.output>>
                            ELSE <<"analysis", result.stock_symbol,
                                   Format("%Y%m%d_%H%M%S", now), cmd.format>>
                r == ExportAnalysisToFile(result, filename, cmd.format, files, io, now)
                call == [op |-> "export_analysis_to_file", filename |-> filename,
                         raised |-> r.raised]
            IN /\ files' = r.files
               /\ IF r.raised
                  THEN /\ log' = Append(log, call)
                       /\ cpc' = "a_except"
                       /\ exc' = r.exc
                       /\ exit_code' = exit_code
                  ELSE /\ log' = log \o <<call, [op |-> "echo",
                                                 text |-> <<"Analysis exported to", filename>>]>>
                       /\ cpc' = "exited"
                       /\ exc' = exc
                       /\ exit_code' = 0
  /\ UNCHANGED <<batchVars, pc, stock_symbol, financial_data_html, company_sentiment,
                 sector_sentiment, rating_result, ret, calls, script, raterVars,
                 now, cmd>>

\* else: click.echo(f"Error: {result.error_message}"); sys.exit(1). SystemExit
\* is not an Exception, so the handler below does not see it.
AnFailed ==
  /\ cpc = "a_failed"
  /\ log' = Append(log, [op |-> "echo", text |-> <<"Error", results[1].error_message>>])
  /\ exit_code' = 1
  /\ cpc' = "exited"
  /\ UNCHANGED <<batchVars, runVars, script, raterVars, files, now, cmd>>

\* except Exception as e: click.echo(f"Error during analysis: {e}"); sys.exit(1)
AnExcept ==
  /\ cpc = "a_except"
  /\ IF Catches("Exception", exc.type)
     THEN /\ log' = Append(log, [op |-> "echo", text |-> <<"Error during analysis", exc.msg>>])
          /\ exit_code' = 1
     ELSE UNCHANGED <<log, exit_code>>
  /\ cpc' = "exited"
  /\ UNCHANGED <<batchVars, runVars, script, raterVars, files, now, cmd>>

\* python main.py analyze SYMBOL [options]
InitAnalyzeCmd ==
  /\ stock_symbols \in {<<s>> : s \in Subjects}
  /\ i = 0
  /\ results = <<>>
  /\ scripts = <<>>
  /\ pc = "direct"
  /\ InitRun
  /\ script = NoScript
  /\ rpc = "idle"
  /\ rin = NoCall
  /\ InitRater
  /\ files = {}
  /\ now = 0
  /\ log = <<>>
  /\ cmd \in AnalyzeOptions
  /\ cpc = "a_init"
  /\ exit_code = 0

NextAnalyzeCmd ==
  \/ AnInitPipeline
  \/ AnAnalyze
  \/ AnShow
  \/ AnExport
  \/ AnFailed
  \/ AnExcept

SpecAnalyzeCmd == InitAnalyzeCmd /\ [][NextAnalyzeCmd]_vars

\* The analyze command has ended with a record of the analysis.
AnalyzeEnded == cpc = "exited" /\ "output" \in DOMAIN cmd /\ results # <<>>
\* The export step of the command was reached and raised.
ExportStepFailed ==
  \E j \in 1..Len(log) : log[j].op = "export_analysis_to_file" /\ log[j].raised

\* The failure half of C21: a command whose record has success=false exits
\* with code 1, echoes the record's error message and exports nothing.
FailedRecordExitsNonzero ==
  (AnalyzeEnded /\ ~results[1].success) =>
    /\ exit_code = 1
    /\ log = <<[op |-> "echo", text |-> <<"Error", results[1].error_message>>]>>
    /\ files = {}

MaxQueries == 2
MaxHits == 1

\* The k-th query generate_queries produces for a company.
GeneratedQuery(company_name, k) == <<"query", k, company_name>>
QueryLists(company_name) ==
  {[k \in 1..n |-> GeneratedQuery(company_name, k)] : n \in 0..MaxQueries}
\* generate_queries(company_name): the queries, or what the context search or
\* the structured chat call raises.
GenerateQueriesOutcomes(company_name) ==
  {[ok |-> TRUE, exc |-> NoExc, queries |-> qs] : qs \in QueryLists(company_name)}
  \cup {[ok |-> FALSE, exc |-> Exc("RequestException", "context search failed"),
         queries |-> <<>>]}

\* One hit of exa_client.search_and_contents; text is None when the body of the
\* page could not be retrieved.
Hit(url, text) ==
  [title |-> <<"title of", url>>, url |-> url, published_date |-> None, text |-> text]
Hits == {Hit("u1", "body of u1"), Hit("u2", None), Hit("u3", "")}
HitLists == UNION {[1..n -> Hits] : n \in 0..MaxHits}
\* exa_client.search_and_contents(query, ...): a response, or a raise.
SearchOutcomes ==
  {[ok |-> TRUE, exc |-> NoExc, results |-> hs] : hs \in HitLists}
  \cup {[ok |-> FALSE, exc |-> Exc("RequestException", "search failed"), results |-> <<>>]}

\* NewsArticle(title, url, published_date, content, search_query, collected_at)
NewsArticle(title, url, published_date, content, search_query, collected_at) ==
  [title |-> title, url |-> url, published_date |-> published_date,
   content |-> content, summary |-> None, sentiment |-> None,
   sentiment_score |-> None, search_query |-> search_query,
   collected_at |-> collected_at]

\* for query in search_queries: combined_search_response.extend(
\* search_response.results), from query k on; a search that raises ends the loop.
RECURSIVE CombineSearches(_, _, _, _)
CombineSearches(search_queries, responses, k, combined) ==
  IF k > Len(search_queries) THEN [ok |-> TRUE, exc |-> NoExc, combined |-> combined]
  ELSE IF ~responses[k].ok THEN [ok |-> FALSE, exc |-> responses[k].exc, combined |-> combined]
  ELSE CombineSearches(search_queries, responses, k + 1, combined \o responses[k].results)

\* The value of the name query after the loop over search_queries: the loop
\* rebinds the parameter, so it is the last generated query, or the argument of
\* search_news when no query was generated.
QueryAfterLoop(query, search_queries) ==
  IF search_queries = <<>> THEN query ELSE search_queries[Len(search_queries)]

\* The body of the second loop for one result: len(result.text) raises
\* TypeError on None, and the handler builds the article with content "".
ArticleOf(result, query, t) ==
  IF result.text = None
  THEN NewsArticle(result.title, result.url, result.published_date, "", query,
                   Format("isoformat", t))
  ELSE NewsArticle(result.title, result.url, result.published_date,
                   IF result.text # "" THEN result.text ELSE "", query,
                   Format("isoformat", t))
\* Mutant: a result whose body is missing is given no article.
MutArticlesSkipFailed(combined, query, t) ==
  LET kept == SelectSeq(combined, LAMBDA r : r.text # None)
  IN [j \in 1..Len(kept) |-> ArticleOf(kept[j], query, t)]
\* for result in combined_search_response: ... articles.append(article)
Articles(combined, query, t) ==
  [j \in 1..Len(combined) |-> ArticleOf(combined[j], query, t)]

\* search_news(query): gen is what generate_queries does and responses what
\* the news search does for each generated query; every exception is logged
\* and raised again.
SearchNews(query, gen, responses, t) ==
  IF ~gen.ok THEN [raised |-> TRUE, exc |-> gen.exc, articles |-> <<>>]
  ELSE LET c == CombineSearches(gen.queries, responses, 1, <<>>)
       IN IF ~c.ok THEN [raised |-> TRUE, exc |-> c.exc, articles |-> <<>>]
          ELSE [raised |-> FALSE, exc |-> NoExc,
                articles |-> Articles(c.combined, QueryAfterLoop(query, gen.queries), t)]

\* ------------------------- news_collator.py, summaries and sentiment
\* A Python string built from a template: m is the text of the exception put
\* into it ("" when none), text the model's reply put into it.
PyStr(template, m, text) == [template |-> template, m |-> m, text |-> text]
\* The entries of the list summarize_all_articles returns.
StrEntry(s) == [type |-> "str", value |-> s]
ArticleEntry(article) == [type |-> "NewsArticle", value |-> article]

\* What the chat model does for one summarization or sentiment call: a reply
\* with white space around it, or a raise; the prompt file may be missing.
ChatReply == <<Tok("s"), Tok("w"), Tok("s")>>
ChatOk == [ok |-> TRUE, exc |-> NoExc, content |-> ChatReply]
ChatRaise(type, msg) == [ok |-> FALSE, exc |-> Exc(type, msg), content |-> <<>>]
SummaryOutcomes == {ChatOk, ChatRaise("RuntimeError", "rate limit")}
SentimentOutcomes ==
  {ChatOk, ChatRaise("RuntimeError", "rate limit"),
   ChatRaise("FileNotFoundError", "prompts/news_sentiment.md")}

\* summarize_article(article): out is what opening the prompt and calling the
\* chat model does. On success the article itself is returned, its summary set.
SummarizeArticle(article, out) ==
  IF article.content = ""
  THEN StrEntry(PyStr("No content available for summarization.", "", <<>>))
  ELSE IF ~out.ok
  THEN StrEntry(PyStr("Error generating summary: {}", out.exc.msg, <<>>))
  ELSE ArticleEntry([article EXCEPT !.summary = PyStr("{}", "", Strip(out.content))])

\* Mutant: the list comprehension stops at the first failing summarization.
RECURSIVE MutSummarizeUntilFailure(_, _)
MutSummarizeUntilFailure(articles, outs) ==
  IF articles = <<>> THEN <<>>
  ELSE IF Head(articles).content # "" /\ ~Head(outs).ok THEN <<>>
  ELSE <<SummarizeArticle(Head(articles), Head(outs))>>
       \o MutSummarizeUntilFailure(Tail(articles), Tail(outs))
\* summarize_all_articles(articles)
SummarizeAllArticles(articles, outs) ==
  [j \in 1..Len(articles) |-> SummarizeArticle(articles[j], outs[j])]

\* analyze_sentiment(summaries, mode, target_name): the pair it returns. Every
\* exception, the ValueError of an invalid mode included, is logged and
\* replaced by a fixed text.
AnalyzeSentiment(summaries, mode, target_name, out) ==
  IF mode \notin {"company", "sector"} \/ ~out.ok
  THEN <<PyStr("Error analyzing sentiment", "", <<>>), mode>>
  ELSE <<PyStr("{}", "", Strip(out.content)), mode>>

\* get_stock_sentiment(company_name), by steps. cmd holds the company name and
\* what generate_queries and the news searches do; log holds what each call
\* returned.
GsSearchNews ==
  /\ cpc = "gs_search"
  /\ LET r == SearchNews(cmd.company_name, cmd.gen, cmd.responses, now)
     IN /\ log' = <<[op |-> "search_news", raised |-> r.raised, exc |-> r.exc,
                     articles |-> r.articles]>>
        /\ IF r.raised THEN cpc' = "exited" /\ exc' = r.exc
           ELSE cpc' = "gs_summarize" /\ exc' = exc
  /\ UNCHANGED <<batchVars, pc, stock_symbol, financial_data_html, company_sentiment,
                 sector_sentiment, rating_result, ret, calls, script, raterVars,
                 files, now, cmd, exit_code>>

\* The chat model is not called for an article without content: outs holds
\* ChatOk there.
GsSummarize ==
  /\ cpc = "gs_summarize"
  /\ \E outs \in [1..Len(log[1].articles) -> SummaryOutcomes] :
       /\ \A j \in 1..Len(outs) : log[1].articles[j].content = "" => outs[j] = ChatOk
       /\ log' = Append(log, [op |-> "summarize_all_articles", outs |-> outs,
                              summaries |-> SummarizeAllArticles(log[1].articles, outs)])
  /\ cpc' = "gs_company"
  /\ UNCHANGED <<batchVars, runVars, script, raterVars, files, now, cmd, exit_code>>

GsCompanySentiment ==
  /\ cpc = "gs_company"
  /\ \E out \in SentimentOutcomes :
       log' = Append(log, [op |-> "analyze_sentiment", mode |-> "company", out |-> out,
                           returned |-> AnalyzeSentiment(log[2].summaries, "company",
                                                         cmd.company_name, out)])
  /\ cpc' = "gs_sector"
  /\ UNCHANGED <<batchVars, runVars, script, raterVars, files, now, cmd, exit_code>>

GsSectorSentiment ==
  /\ cpc = "gs_sector"
  /\ \E out \in SentimentOutcomes :
       log' = Append(log, [op |-> "analyze_sentiment", mode |-> "sector", out |-> out,
                           returned |-> AnalyzeSentiment(log[2].summaries, "sector",
                                                         cmd.company_name, out)])
  /\ cpc' = "exited"
  /\ UNCHANGED <<batchVars, runVars, script, raterVars, files, now, cmd, exit_code>>

\* What the collaborators of one get_stock_sentiment call do.
SentimentInputs ==
  {[company_name |-> "aaa", gen |-> g, responses |-> rs] :
     g \in GenerateQueriesOutcomes("aaa"),
     rs \in UNION {[1..n -> SearchOutcomes] : n \in 0..MaxQueries}}

InitNews ==
  /\ stock_symbols = <<>>
  /\ i = 0
  /\ results = <<>>
  /\ scripts = <<>>
  /\ pc = "direct"
  /\ InitRun
  /\ script = NoScript
  /\ rpc = "idle"
  /\ rin = NoCall
  /\ InitRater
  /\ files = {}
  /\ now = 0
  /\ log = <<>>
  /\ cmd \in SentimentInputs
  /\ Len(cmd.responses) = Len(cmd.gen.queries)
  /\ cpc = "gs_search"
  /\ exit_code = 0

NextNews ==
  \/ GsSearchNews
  \/ GsSummarize
  \/ GsCompanySentiment
  \/ GsSectorSentiment

SpecNews == InitNews /\ [][NextNews]_vars

\* search_news has returned its list of articles.
SearchReturned == log # <<>> /\ log[1].op = "search_news" /\ ~log[1].raised
\* All hits of all queries, in the order of the queries.
RECURSIVE HitsFrom(_, _)
HitsFrom(responses, k) ==
  IF k > Len(responses) THEN <<>> ELSE responses[k].results \o HitsFrom(responses, k + 1)
\* The index of the query whose search returned the j-th hit of all.
RECURSIVE OriginOf(_, _, _)
OriginOf(responses, k, j) ==
  IF j <= Len(responses[k].results) THEN k
  ELSE OriginOf(responses, k + 1, j - Len(responses[k].results))

\* C22: the list search_news returns holds one article for every hit of every
\* query, in order and without deduplication across queries, so its length is
\* the total number of hits; a hit whose body is missing is kept with an empty
\* body.
C22_EveryHitKept ==
  SearchReturned =>
    LET hits == HitsFrom(cmd.responses, 1)
        articles == log[1].articles
    IN /\ Len(articles) = Len(hits)
       /\ \A j \in 1..Len(hits) :
            /\ articles[j].url = hits[j].url
            /\ articles[j].title = hits[j].title
            /\ articles[j].content = IF hits[j].text = None THEN "" ELSE hits[j].text
C22_Witness ==
  /\ SearchReturned
  /\ Len(cmd.responses) = 2
  /\ cmd.responses[1].results = <<Hit("u2", None)>>
  /\ cmd.responses[2].results = <<Hit("u2", None)>>
  /\ Len(log[1].articles) = 2
  /\ log[1].articles[1].url = "u2"
  /\ log[1].articles[1].content = ""
  /\ log[1].articles[2].url = "u2"

\* C26: every article search_news returns records as its search_query the
\* generated query whose news search returned it.
C26_ArticleRecordsOriginatingQuery ==
  SearchReturned =>
    \A j \in 1..Len(log[1].articles) :
      log[1].articles[j].search_query = cmd.gen.queries[OriginOf(cmd.responses, 1, j)]

\* summarize_all_articles has returned.
SummariesReturned == Len(log) >= 2 /\ log[2].op = "summarize_all_articles"

\* C23: summarize_all_articles returns one entry per input article, in input
\* order; an article whose summarization call raises gets a placeholder string
\* that holds the error's text, an article without content the no-content
\* placeholder, and every other article is returned with its summary set.
C23_OneEntryPerArticle ==
  SummariesReturned =>
    LET articles == log[1].articles
        outs == log[2].outs
        summaries == log[2].summaries
    IN /\ Len(summaries) = Len(articles)
       /\ \A j \in 1..Len(articles) :
            IF articles[j].content = ""
            THEN summaries[j] =
                   StrEntry(PyStr("No content available for summarization.", "", <<>>))
            ELSE IF ~outs[j].ok
            THEN /\ summaries[j].type = "str"
                 /\ summaries[j].value.template = "Error generating summary: {}"
                 /\ summaries[j].value.m = outs[j].exc.msg
            ELSE /\ summaries[j].type = "NewsArticle"
                 /\ summaries[j].value.url = articles[j].url
                 /\ summaries[j].value.content = articles[j].content
                 /\ summaries[j].value.summary = PyStr("{}", "", <<Tok("w")>>)
C23_Witness ==
  /\ SummariesReturned
  /\ Len(log[1].articles) = 2
  /\ log[1].articles[1].content # ""
  /\ ~log[2].outs[1].ok
  /\ log[1].articles[2].content # ""
  /\ log[2].outs[2].ok
  /\ log[2].summaries[1].type = "str"
  /\ log[2].summaries[2].type = "NewsArticle"

\* C27: when the model call of analyze_sentiment raises, analyze_sentiment
\* returns a text that holds the error's description.
C27_SentimentErrorTextEmbedsError ==
  \A j \in 1..Len(log) :
    (log[j].op = "analyze_sentiment" /\ ~log[j].out.ok) =>
       log[j].returned[1].m = log[j].out.exc.msg

\* The collaborator has been called in this run; a call is logged in calls by
\* the step that makes it and takes its result.
Called(name) == \E k \in 1..Len(calls) : calls[k] = name

\* What the code does instead of C24: the stages of one run follow each other,
\* the sentiment collator is called only after the fundamentals gatherer has
\* returned.
StagesRunInSequence ==
  Called("sentiment_collator") =>
    /\ calls[1] = "financial_gatherer"
    /\ script.fund.ok
    /\ financial_data_html = FinancialHtml(stock_symbol)

\* C24: within one analyze_stock run the fundamentals and the sentiment
\* gathering are scheduled as concurrent tasks and joined before the rating
\* stage: the run is never at a point where the fundamentals gathering has
\* finished and the sentiment gathering has not been started, and the rating
\* stage starts only after both have completed.
C24_StagesScheduledConcurrently ==
  /\ Called("financial_gatherer") => Called("sentiment_collator")
  /\ Called("stock_rater") =>
       /\ Called("financial_gatherer")
       /\ Called("sentiment_collator")
       /\ financial_data_html = FinancialHtml(stock_symbol)
       /\ company_sentiment = CompanySentiment(stock_symbol)

\* The analyses of a batch run that have been started and have not returned
\* their record to the loop yet.
InFlight == Len(scripts) - Len(results)
\* What the code does instead of C25: at most one analysis is in flight, and a
\* subject is started only when every earlier subject has its record.
AtMostOneInFlight == InFlight \in {0, 1}

\* C25: in a batch run a subject in progress does not block the subjects after
\* it: while an analysis is in progress and a later subject is still waiting
\* to be started, it is because the (configurable, at least two) maximum of
\* in-flight analyses is reached, never because of one analysis alone.
C25_SlowSubjectDoesNotBlock ==
  (InFlight >= 1 /\ Len(scripts) < Len(stock_symbols) /\ pc \notin {"loop", "done"})
     => InFlight >= 2

\* The rating stage of the run failed: the prompt could not be built, the model
\* call raised, or the reply holds no object the verdict can be read from.
RatingStageFailed(sc) == sc.fund.ok /\ sc.sent.ok /\ Degraded(sc)

\* C28: analyze_stock returns success=false exactly when the fundamentals or
\* the sentiment stage raised; a failure inside the rating stage is absorbed by
\* rate_stock: the record has success=true, no error_message, the gathered
\* fundamentals and sentiment texts and a HOLD verdict.
C28_OnlyGatheringFailuresFail ==
  pc = "returned" =>
    /\ ret.success = FALSE <=> (~script.fund.ok \/ ~script.sent.ok)
    /\ RatingStageFailed(script) =>
         /\ ret.success = TRUE
         /\ ret.error_message = None
         /\ ret.financial_data_html = FinancialHtml(stock_symbol)
         /\ ret.company_sentiment = CompanySentiment(stock_symbol)
         /\ ret.sector_sentiment = SectorSentiment(stock_symbol)
         /\ ret.rating_result.rating = "HOLD"
C28_Witness ==
  /\ pc = "returned"
  /\ script.fund.ok
  /\ script.sent.ok
  /\ script.call = Raise("RuntimeError", "rate limit")
  /\ ret.success = TRUE
  /\ ret.error_message = None
  /\ ret.rating_result.rating = "HOLD"
  /\ ret.rating_result.confidence = 0

\* export_batch_results has been called and its os.makedirs worked.
BatchExportRan ==
  /\ log # <<>>
  /\ log[1].op = "export_batch_results"
  /\ log[1].exc # Exc("OSError", "makedirs")
\* The number of records whose export succeeded (ok = TRUE) or failed.
ExportCount(ok) ==
  Cardinality({k \in 1..Len(log[1].exported) : log[1].exported[k] = ok})
\* Whether the export of record k to a file of its own raises, whatever
\* happened to the records before it.
OwnExportRaises(k) ==
  ExportAnalysisToFile(results[k],
    RecordFileName("analysis_results", results[k].stock_symbol, now, log[1].format),
    log[1].format, {}, log[1].ios[k], now).raised

\* C29: export_batch_results tries the export of every record, whatever
\* happened to the records before it, and does not raise when the export of a
\* record fails; the successful and the failed exports add up to the number of
\* records.
C29_EveryRecordAttempted ==
  BatchExportRan =>
    /\ ~log[1].raised
    /\ Len(log[1].exported) = Len(results)
    /\ ExportCount(TRUE) + ExportCount(FALSE) = Len(results)
    /\ \A k \in 1..Len(results) :
         /\ log[1].ios[k] # "ok" => ~log[1].exported[k]
         /\ log[1].format # "csv" => (log[1].exported[k] <=> ~OwnExportRaises(k))
C29_Witness ==
  /\ BatchExportRan
  /\ log[1].format = "json"
  /\ Len(results) = 3
  /\ log[1].ios = <<"write", "ok", "open">>
  /\ log[1].exported = <<FALSE, TRUE, FALSE>>
  /\ ~log[1].raised

\* create_analysis_report has been called, and writing the report to the output
\* file, when one was asked for, did not fail.
ReportCalled ==
  /\ log # <<>>
  /\ log[1].op = "create_analysis_report"
  /\ (log[1].output_file = None \/ log[1].io = "ok")

\* C30: create_analysis_report returns a report for every list of records that
\* is not empty, and raises only for the empty list; when no record succeeded
\* the mean confidence is reported as 0 and the rating distribution is empty.
C30_ReportForEveryNonEmptyList ==
  ReportCalled =>
    /\ log[1].raised <=> results = <<>>
    /\ (~log[1].raised /\ SuccessfulCount = 0) =>
         /\ log[1].report.average_confidence = 0
         /\ log[1].report.distribution = <<>>
\* The part of C30 that holds: a list in which no record succeeded gets its
\* report, with mean confidence 0 and an empty distribution.
NoSuccessStillReported ==
  (ReportCalled /\ results # <<>> /\ SuccessfulCount = 0) =>
    /\ ~log[1].raised
    /\ log[1].report.average_confidence = 0
    /\ log[1].report.distribution = <<>>
    /\ log[1].report.failed = Len(results)

====
